---- MODULE Spec2Model ----
(***************************************************************************)
(* Model of the block-generation round of tapyrus-signer: the NodeState    *)
(* variants and their builders (signer_node/node_state.rs) and the         *)
(* Blockvss message processor (message_processor/process_blockvss.rs).     *)
(*                                                                         *)
(* Cryptography is computed, not assumed: scalars live in the prime field  *)
(* of order GroupOrder and curve points are the multiples k*G of the       *)
(* generator G = (2, 12) of the curve y^2 = x^3 + 7 over the field of      *)
(* FieldPrime elements, a scaled-down secp256k1 (same equation, prime      *)
(* group order, FieldPrime = 3 mod 4).  A point is represented by its      *)
(* multiplier k, so point addition is addition modulo GroupOrder and the   *)
(* y-coordinate is read from the table of the curve.                       *)
(***************************************************************************)
EXTENDS Integers, Sequences, FiniteSets, TLC

(* ------------------------------ bounds -------------------------------- *)

\* number of signers of the federation (params.pubkey_list.len())
NumSigners == 3
\* threshold T of the federation (params.threshold)
Threshold == 2
\* block heights run from 1 to MaxHeight
MaxHeight == 1

(* ------------------------- crypto primitives -------------------------- *)

\* field prime p of the curve (scaled down from 2^256 - 2^32 - 977)
FieldPrime == 43
\* order of the group generated by G, the modulus of the scalars FE
GroupOrder == 31

\* y-coordinate of k*G for k = 1 .. GroupOrder - 1
YCoorTable ==
  << 12,  7, 21, 18, 12, 31, 18, 40, 40,  7,
     25, 36, 21, 40, 21, 22,  3, 22,  7, 18,
     36,  3,  3, 25, 12, 31, 25, 22, 36, 31 >>

\* GE::y_coor(): defined for every point but the point at infinity
y_coor(point) == YCoorTable[point]

FE == 0 .. (GroupOrder - 1)

fe_add(a, b) == (a + b) % GroupOrder

fe_mul(a, b) == (a * b) % GroupOrder

fe_neg(a) == (GroupOrder - (a % GroupOrder)) % GroupOrder

RECURSIVE fe_pow(_, _)
fe_pow(a, n) == IF n = 0 THEN 1 ELSE fe_mul(a, fe_pow(a, n - 1))

\* sum of f[k] over the keys of a finite map, in the scalar field
RECURSIVE fe_sum(_, _)
fe_sum(f, keys) ==
  IF keys = {} THEN 0
  ELSE LET k == CHOOSE x \in keys : TRUE
       IN  fe_add(f[k], fe_sum(f, keys \ {k}))

\* util::jacobi(a, n): the Jacobi symbol (a / n) of an odd n > 0, by the
\* binary algorithm (quadratic reciprocity), result in {-1, 0, 1}
RECURSIVE jacobi_loop(_, _, _)
jacobi_loop(a, n, result) ==
  IF a = 0 THEN (IF n = 1 THEN result ELSE 0)
  ELSE IF a % 2 = 0
       THEN jacobi_loop(a \div 2, n,
                        IF n % 8 \in {3, 5} THEN -result ELSE result)
       ELSE jacobi_loop(n % a, a,
                        IF a % 4 = 3 /\ n % 4 = 3 THEN -result ELSE result)

jacobi(a, n) == jacobi_loop(a % n, n, 1)

(* ------------------------------ options ------------------------------- *)

None == [some |-> FALSE]

Some(v) == [some |-> TRUE, val |-> v]

Ok(v) == [ok |-> TRUE, val |-> v]

Err(e) == [ok |-> FALSE, err |-> e]

\* BTreeMap::new()
EmptyMap == [k \in {} |-> None]

\* variant of BTreeMap::insert that keeps the value of an existing key
MapInsert_keep_existing(map, key, value) ==
  [k \in (DOMAIN map) \cup {key} |->
     IF k \in DOMAIN map THEN map[k] ELSE value]

\* BTreeMap::insert: the value of an existing key is replaced
MapInsert(map, key, value) ==
  [k \in (DOMAIN map) \cup {key} |-> IF k = key THEN value ELSE map[k]]

(* ------------------------ federation parameters ----------------------- *)

\* params.pubkey_list: the signers in ascending order of public key; a
\* SignerID is written as the rank of its public key
pubkey_list == [i \in 1 .. NumSigners |-> i]

Federation == {pubkey_list[i] : i \in 1 .. NumSigners}

\* a signer whose public key is not in pubkey_list
Outsider == NumSigners + 1

SignerIDs == Federation \cup {Outsider}

\* sighashes of the candidate blocks of the model
Hashes == {1, 2}

\* Block: the sighash identifies the block
Block(h) == [sighash |-> h]

\* the long-lived private shared key of the node (SharedKeys {y, x_i})
priv_shared_keys == [x_i |-> 5, y |-> 9]

\* NodeParameters of the node whose 0-based index is idx
NodeParameters(idx) ==
  [ pubkey_list     |-> pubkey_list,
    threshold       |-> Threshold,
    self_node_index |-> idx,
    signer_id       |-> pubkey_list[idx + 1] ]

\* NodeParameters::sharing_params(): polynomials of degree threshold - 1
sharing_params(params) ==
  [ threshold   |-> params.threshold - 1,
    share_count |-> Len(params.pubkey_list) ]

(* ------------------------------ Feldman VSS ---------------------------- *)

\* value at index of the polynomial with the coefficients coeffs
RECURSIVE poly_eval(_, _, _)
poly_eval(coeffs, index, j) ==
  IF j > Len(coeffs) THEN 0
  ELSE fe_add(fe_mul(coeffs[j], fe_pow(index % GroupOrder, j - 1)),
              poly_eval(coeffs, index, j + 1))

\* VerifiableSS::validate_share: share * G = sum of commitments[j] * index^j
validate_share(vss, secret_share, index) ==
  secret_share = poly_eval(vss.commitments, index, 1)

\* VerifiableSS::share: the commitments to the coefficients of a polynomial
\* whose constant term is secret (the other coefficients are fixed here)
vss_commitments(secret, t) ==
  [j \in 1 .. (t + 1) |-> IF j = 1 THEN secret ELSE (2 * j + 1) % GroupOrder]

VerifiableSS(secret) ==
  [ parameters  |-> [threshold |-> Threshold - 1, share_count |-> NumSigners],
    commitments |-> vss_commitments(secret, Threshold - 1) ]

\* SharedSecret {vss, secret_share} a dealer of secret hands to index
SharedSecret(secret, index, off) ==
  [ vss          |-> VerifiableSS(secret),
    secret_share |-> fe_add(poly_eval(vss_commitments(secret, Threshold - 1),
                                      index, 1), off) ]

\* the pair (for_positive, for_negative) a signer with block key k sends to
\* index: VSS over k and over -k; off_pos, off_neg shift a share off its
\* commitment
VssPair(k, index, off_pos, off_neg) ==
  [ positive |-> SharedSecret(k, index, off_pos),
    negative |-> SharedSecret(fe_neg(k), index, off_neg) ]

\* block keys the signers of the model draw
BlockKeys == {1, 2}

\* the signer of the federation that may deal shares off their commitments
FaultySigner == pubkey_list[NumSigners]

\* the Blockvss payloads sender may deliver to the node at 1-based index in
\* one round: the first signer draws its block key from BlockKeys, the others
\* draw the first block key; the faulty signer may also deal a pair whose
\* positive share is off by one and a pair whose negative share is off by one
VssPairs(sender, index) ==
  IF sender = pubkey_list[1]
  THEN {VssPair(k, index, 0, 0) : k \in BlockKeys}
  ELSE {VssPair(1, index, 0, 0)}
         \cup (IF sender = FaultySigner
               THEN {VssPair(1, index, 1, 0), VssPair(1, index, 0, 1)}
               ELSE {})

\* ToSharedSecretMap::for_positive / for_negative
for_positive(shared_block_secrets) ==
  [s \in DOMAIN shared_block_secrets |-> shared_block_secrets[s].positive]

for_negative(shared_block_secrets) ==
  [s \in DOMAIN shared_block_secrets |-> shared_block_secrets[s].negative]

\* Sign::verify_vss_and_construct_key: every share must match its
\* commitment at index; then x_i is the sum of the shares and y the sum of the
\* first commitments
verify_vss_and_construct_key(sparams, secret_shares, index) ==
  IF \A s \in DOMAIN secret_shares :
        validate_share(secret_shares[s].vss, secret_shares[s].secret_share, index)
  THEN Ok([ x_i |-> fe_sum([s \in DOMAIN secret_shares |->
                              secret_shares[s].secret_share],
                           DOMAIN secret_shares),
            y   |-> fe_sum([s \in DOMAIN secret_shares |->
                              secret_shares[s].vss.commitments[1]],
                           DOMAIN secret_shares) ])
  ELSE Err("InvalidSS")

\* outcomes of Sign::sign: a LocalSig (TRUE) or an error (FALSE)
SignOutcomes == BOOLEAN

\* Sign::sign: LocalSig {gamma_i, e} with e the challenge over the ephemeral
\* key, the federation key and the message, gamma_i = x_i + e * priv.x_i;
\* succeeds is the outcome of the call
Sign_sign(eph_shared_keys, priv, message, succeeds) ==
  IF succeeds
  THEN LET e == fe_add(fe_add(eph_shared_keys.y, priv.y), message)
       IN  Ok([ gamma_i |-> fe_add(eph_shared_keys.x_i, fe_mul(e, priv.x_i)),
                e       |-> e ])
  ELSE Err("InvalidSig")

(* ------------------------------ NodeState ------------------------------ *)

Joining == [tag |-> "Joining"]

Idling(block_height) == [tag |-> "Idling", block_height |-> block_height]

\* a RoundComplete whose two indexes are exchanged
RoundComplete_swapped(master_index, next_master_index, block_height) ==
  [ tag               |-> "RoundComplete",
    master_index      |-> next_master_index,
    next_master_index |-> master_index,
    block_height      |-> block_height ]

RoundComplete(master_index, next_master_index, block_height) ==
  [ tag               |-> "RoundComplete",
    master_index      |-> master_index,
    next_master_index |-> next_master_index,
    block_height      |-> block_height ]

\* builder::Master::default()
Master_default ==
  [ block_key            |-> None,
    shared_block_secrets |-> EmptyMap,
    block_shared_keys    |-> None,
    candidate_block      |-> None,
    signatures           |-> EmptyMap,
    participants         |-> {},
    round_is_done        |-> FALSE,
    block_height         |-> 0 ]

\* variant of builder::Master::build() that moves to the next height
Master_build_next_height(b) ==
  [ tag                  |-> "Master",
    block_key            |-> b.block_key,
    shared_block_secrets |-> b.shared_block_secrets,
    block_shared_keys    |-> b.block_shared_keys,
    candidate_block      |-> b.candidate_block,
    signatures           |-> b.signatures,
    participants         |-> b.participants,
    round_is_done        |-> b.round_is_done,
    block_height         |-> b.block_height + 1 ]

\* builder::Master::build(): the state gets block_height 0, whatever the
\* builder holds
Master_build(b) ==
  [ tag                  |-> "Master",
    block_key            |-> b.block_key,
    shared_block_secrets |-> b.shared_block_secrets,
    block_shared_keys    |-> b.block_shared_keys,
    candidate_block      |-> b.candidate_block,
    signatures           |-> b.signatures,
    participants         |-> b.participants,
    round_is_done        |-> b.round_is_done,
    block_height         |-> 0 ]

\* builder::Master::from_node_state
Master_from_node_state(state) ==
  [ block_key            |-> state.block_key,
    shared_block_secrets |-> state.shared_block_secrets,
    block_shared_keys    |-> state.block_shared_keys,
    candidate_block      |-> state.candidate_block,
    signatures           |-> state.signatures,
    participants         |-> state.participants,
    round_is_done        |-> state.round_is_done,
    block_height         |-> state.block_height ]

\* builder::Member::build()
Member_build(b) ==
  [ tag                  |-> "Member",
    block_key            |-> b.block_key,
    shared_block_secrets |-> b.shared_block_secrets,
    block_shared_keys    |-> b.block_shared_keys,
    candidate_block      |-> b.candidate_block,
    participants         |-> b.participants,
    master_index         |-> b.master_index,
    block_height         |-> b.block_height ]

\* builder::Member::from_node_state
Member_from_node_state(state) ==
  [ block_key            |-> state.block_key,
    shared_block_secrets |-> state.shared_block_secrets,
    block_shared_keys    |-> state.block_shared_keys,
    candidate_block      |-> state.candidate_block,
    participants         |-> state.participants,
    master_index         |-> state.master_index,
    block_height         |-> state.block_height ]

\* the setters of both builders
set_block_key(b, v) == [b EXCEPT !.block_key = v]

set_shared_block_secrets(b, v) == [b EXCEPT !.shared_block_secrets = v]

set_block_shared_keys(b, v) == [b EXCEPT !.block_shared_keys = v]

set_candidate_block(b, v) == [b EXCEPT !.candidate_block = v]

set_participants(b, v) == [b EXCEPT !.participants = v]

set_block_height(b, v) == [b EXCEPT !.block_height = v]

set_master_index(b, v) == [b EXCEPT !.master_index = v]

set_round_is_done(b, v) == [b EXCEPT !.round_is_done = v]

\* variant of insert_signature that drops the signature
insert_signature_discarded(b, signer_id, local_sig) == b

\* variant of insert_signature that stores a second signature of a signer as
\* an entry of its own
insert_signature_keep_duplicates(b, signer_id, local_sig) ==
  LET key == IF signer_id \in DOMAIN b.signatures
             THEN signer_id + (NumSigners + 1) * Cardinality(DOMAIN b.signatures)
             ELSE signer_id
  IN  [b EXCEPT !.signatures =
         MapInsert(b.signatures, key, <<local_sig.gamma_i, local_sig.e>>)]

\* builder::Master::insert_signature
insert_signature(b, signer_id, local_sig) ==
  [b EXCEPT !.signatures =
     MapInsert(b.signatures, signer_id, <<local_sig.gamma_i, local_sig.e>>)]

(* ------------------------------ messages ------------------------------- *)

\* BlockGenerationRoundMessageType::Blockvss
Blockvss(blockhash, pair) ==
  [type |-> "Blockvss", blockhash |-> blockhash, pair |-> pair]

\* MessageType::Candidateblock
Candidateblock(block) == [type |-> "Candidateblock", block |-> block]

\* Message {message_type, sender_id, receiver_id}
Blocksig(sighash, gamma_i, e) ==
  [type |-> "Blocksig", blockhash |-> sighash, gamma_i |-> gamma_i, e |-> e]

Message(message_type, sender_id, receiver_id) ==
  [ message_type |-> message_type,
    sender_id    |-> sender_id,
    receiver_id  |-> receiver_id ]

(* --------------------------- process_blockvss -------------------------- *)

\* message_processor::get_valid_block: the candidate block of a Master or
\* Member state, when its sighash is blockhash
get_valid_block(state, blockhash) ==
  IF state.tag \notin {"Master", "Member"} THEN Err("InvalidNodeState")
  ELSE IF ~state.candidate_block.some THEN Err("InvalidBlock")
  ELSE IF state.candidate_block.val.sighash # blockhash THEN Err("InvalidBlock")
  ELSE Ok(state.candidate_block.val)

\* variant of store_received_vss that takes a Blockvss in every Master state,
\* round_is_done or not
store_received_vss_any_master(sender_id, prev_state, pair) ==
  IF prev_state.tag \in {"Master", "Member"}
  THEN Ok(MapInsert(prev_state.shared_block_secrets, sender_id, pair))
  ELSE Err("InvalidNodeState")

\* store_received_vss: the map of prev_state with the pair of sender_id
\* inserted; an error in a state that takes no Blockvss
store_received_vss(sender_id, prev_state, pair) ==
  IF \/ prev_state.tag = "Master" /\ prev_state.round_is_done = FALSE
     \/ prev_state.tag = "Member"
  THEN Ok(MapInsert(prev_state.shared_block_secrets, sender_id, pair))
  ELSE Err("InvalidNodeState")

\* broadcast_local_sig, the keys of the positive collection
shared_keys_for_positive(shared_block_secrets, params) ==
  verify_vss_and_construct_key(sharing_params(params),
                               for_positive(shared_block_secrets),
                               params.self_node_index + 1)

\* variant of shared_keys_for_negative that verifies the shares of the
\* positive collection and sums the negative one
shared_keys_for_negative_unverified(shared_block_secrets, params) ==
  LET checked == verify_vss_and_construct_key(
                   sharing_params(params), for_positive(shared_block_secrets),
                   params.self_node_index + 1)
      neg     == for_negative(shared_block_secrets)
  IN  IF ~checked.ok THEN checked
      ELSE Ok([ x_i |-> fe_sum([s \in DOMAIN neg |-> neg[s].secret_share],
                               DOMAIN neg),
                y   |-> fe_sum([s \in DOMAIN neg |-> neg[s].vss.commitments[1]],
                               DOMAIN neg) ])

\* broadcast_local_sig, the keys of the negative collection
shared_keys_for_negative(shared_block_secrets, params) ==
  verify_vss_and_construct_key(sharing_params(params),
                               for_negative(shared_block_secrets),
                               params.self_node_index + 1)

\* variant of is_positive that takes the symbol of the node's combined share
is_positive_of_share(keys_for_positive) ==
  jacobi(keys_for_positive.x_i, FieldPrime) = 1

\* variant of is_positive that selects the positive branch on symbol -1
is_positive_nonresidue(keys_for_positive) ==
  jacobi(y_coor(keys_for_positive.y), FieldPrime) = -1

\* broadcast_local_sig, the branch: the Jacobi symbol of the y-coordinate of
\* the positive aggregate modulo the field prime is 1
is_positive(keys_for_positive) ==
  jacobi(y_coor(keys_for_positive.y), FieldPrime) = 1

\* variant of blocksig_message that addresses the message to the node itself
blocksig_message_to_self(block, local_sig, params) ==
  Message(Blocksig(block.sighash, local_sig.gamma_i, local_sig.e),
          params.signer_id, Some(params.signer_id))

\* broadcast_local_sig, the Blocksig message of a local signature
blocksig_message(block, local_sig, params) ==
  Message(Blocksig(block.sighash, local_sig.gamma_i, local_sig.e),
          params.signer_id, None)

\* broadcast_local_sig: the result and the messages handed to
\* conman.broadcast_message, in order
broadcast_local_sig(blockhash, shared_block_secrets, priv, prev_state, params, sign_ok) ==
  LET block == get_valid_block(prev_state, blockhash)
      for_pos == shared_keys_for_positive(shared_block_secrets, params)
      for_neg == shared_keys_for_negative(shared_block_secrets, params)
  IN
  IF ~block.ok THEN [result |-> block, sent |-> <<>>]
  ELSE IF ~for_pos.ok THEN [result |-> for_pos, sent |-> <<>>]
  ELSE IF ~for_neg.ok THEN [result |-> for_neg, sent |-> <<>>]
  ELSE
    LET result_for_positive ==
          Sign_sign(for_pos.val, priv, block.val.sighash, sign_ok)
        result_for_negative ==
          Sign_sign(for_neg.val, priv, block.val.sighash, sign_ok)
        positive == is_positive(for_pos.val)
        shared_keys == IF positive THEN for_pos.val ELSE for_neg.val
        result == IF positive THEN result_for_positive
                  ELSE result_for_negative
    IN  [ result |-> Ok(<<positive, shared_keys>>),
          sent   |-> IF result.ok
                     THEN <<blocksig_message(block.val, result.val, params)>>
                     ELSE <<>> ]

\* variant of vss_count_met that waits for one pair more than there are
\* signers
vss_count_met_one_more(new_shared_block_secrets, params) ==
  Cardinality(DOMAIN new_shared_block_secrets) = Len(params.pubkey_list) + 1

\* variant of vss_count_met that requires threshold pairs
vss_count_met_threshold(new_shared_block_secrets, params) ==
  Cardinality(DOMAIN new_shared_block_secrets) = params.threshold

\* variant of vss_count_met that accepts more pairs than signers
vss_count_met_at_least(new_shared_block_secrets, params) ==
  Cardinality(DOMAIN new_shared_block_secrets) >= Len(params.pubkey_list)

\* process_blockvss, the test that the vss count meets the required number
vss_count_met(new_shared_block_secrets, params) ==
  Cardinality(DOMAIN new_shared_block_secrets) = Len(params.pubkey_list)

\* process_blockvss: the next state, the messages broadcast by the call and
\* the return taken (ret)
process_blockvss(sender_id, blockhash, pair, priv, prev_state, params, sign_ok) ==
  LET stored == store_received_vss(sender_id, prev_state, pair)
  IN
  IF ~stored.ok THEN [state |-> prev_state, sent |-> <<>>, ret |-> stored.err]
  ELSE
    LET new_shared_block_secrets == stored.val
    IN
    IF ~vss_count_met(new_shared_block_secrets, params)
    THEN [ state |->
             IF prev_state.tag = "Master"
             THEN Master_build(
                    set_block_shared_keys(
                      set_shared_block_secrets(
                        Master_from_node_state(prev_state),
                        new_shared_block_secrets),
                      None))
             ELSE Member_build(
                    set_block_shared_keys(
                      set_shared_block_secrets(
                        Member_from_node_state(prev_state),
                        new_shared_block_secrets),
                      None)),
           sent |-> <<>>,
           ret  |-> "stored" ]
    ELSE
      LET bls == broadcast_local_sig(blockhash, new_shared_block_secrets, priv,
                                     prev_state, params, sign_ok)
      IN
      IF ~bls.result.ok
      THEN [state |-> prev_state, sent |-> bls.sent, ret |-> bls.result.err]
      ELSE
        LET block_shared_keys == << bls.result.val[1],
                                    bls.result.val[2].x_i,
                                    bls.result.val[2].y >>
        IN  [ state |->
                IF prev_state.tag = "Master"
                THEN Master_build(
                       set_block_shared_keys(
                         set_shared_block_secrets(
                           Master_from_node_state(prev_state),
                           new_shared_block_secrets),
                         Some(block_shared_keys)))
                ELSE Member_build(
                       set_block_shared_keys(
                         set_shared_block_secrets(
                           Member_from_node_state(prev_state),
                           new_shared_block_secrets),
                         Some(block_shared_keys))),
              sent |-> bls.sent,
              ret  |-> "derived" ]

(* --------------------------- process_blocksig -------------------------- *)

\* MessageType::Completedblock
Completedblock(block) == [type |-> "Completedblock", block |-> block]

\* process_blocksig, the completion test: the Master holds T signatures
signatures_complete(signatures, params) ==
  Cardinality(DOMAIN signatures) = params.threshold

\* process_blocksig: a Master whose round runs, whose candidate block has the
\* sighash blockhash and whose block_shared_keys is Some takes the local
\* signature of a participant; with the T-th signature it broadcasts the
\* Completedblock and the round is done.  The next state, the messages
\* broadcast and the return taken (ret)
process_blocksig(sender_id, blockhash, gamma_i, e, prev_state, params) ==
  IF \/ prev_state.tag # "Master"
     \/ prev_state.round_is_done
     \/ ~prev_state.candidate_block.some
     \/ prev_state.candidate_block.val.sighash # blockhash
     \/ ~prev_state.block_shared_keys.some
     \/ sender_id \notin prev_state.participants
  THEN [state |-> prev_state, sent |-> <<>>, ret |-> "dropped"]
  ELSE
    LET b == insert_signature(Master_from_node_state(prev_state), sender_id,
                              [gamma_i |-> gamma_i, e |-> e])
    IN  IF signatures_complete(b.signatures, params)
        THEN [ state |-> [tag |-> "Master"] @@ set_round_is_done(b, TRUE),
               sent  |-> << Message(Completedblock(prev_state.candidate_block.val),
                                    params.signer_id, None) >>,
               ret   |-> "completed" ]
        ELSE [ state |-> [tag |-> "Master"] @@ b,
               sent  |-> <<>>,
               ret   |-> "inserted" ]

\* the local signatures a signer may send: gamma_i from SigValues
SigValues == {1, 2}

\* the inputs of a process_blocksig call
BlocksigInputs ==
  { [sender_id |-> s, blockhash |-> h, gamma_i |-> g, e |-> 1] :
      s \in SignerIDs, h \in Hashes, g \in SigValues }

(* ----------------------------- RedisManager ---------------------------- *)

\* the digits of the lower-case hexadecimal notation
HexDigits == <<"0", "1", "2", "3", "4", "5", "6", "7", "8", "9",
               "a", "b", "c", "d", "e", "f">>

\* Display of a public key: the hexadecimal notation of its serialization
\* (one byte in this model)
hex(key) == <<HexDigits[(key \div 16) + 1], HexDigits[(key % 16) + 1]>>

\* the channel every signer subscribes to
BroadcastChannel == <<"tapyrus-signer">>

\* format!("tapyrus-signer-{}", id.pubkey.key): the private channel of id
channel_name(id) == <<"tapyrus-signer-">> \o hex(id)

\* MessageType::Roundfailure
Roundfailure == [type |-> "Roundfailure"]

\* the key whose hexadecimal notation is the two digits
from_hex(digits) ==
  16 * (CHOOSE i \in 0 .. 15 : HexDigits[i + 1] = digits[1])
    + (CHOOSE i \in 0 .. 15 : HexDigits[i + 1] = digits[2])

\* the notation of the argument of a message type: the sighash of the block
\* of a Candidateblock, null for Roundfailure
type_argument(message_type) ==
  IF message_type.type = "Candidateblock"
  THEN HexDigits[message_type.block.sighash + 1]
  ELSE "null"

\* serde_json::to_string(&message)
to_string(message) ==
  <<"{", message.message_type.type, type_argument(message.message_type)>>
    \o hex(message.sender_id)
    \o (IF message.receiver_id.some THEN hex(message.receiver_id.val)
                                    ELSE <<"null">>)
    \o <<"}">>

\* serde_json::from_str(&payload): the Message, or an error for a payload
\* that is not the notation of a Message
from_str(payload) ==
  IF /\ Len(payload) \in {7, 8}
     /\ payload[1] = "{"
     /\ payload[Len(payload)] = "}"
     /\ Len(payload) = 7 => payload[6] = "null"
  THEN Ok(Message(IF payload[3] = "null"
                  THEN [type |-> payload[2]]
                  ELSE [type  |-> payload[2],
                        block |-> Block(from_hex(<<"0", payload[3]>>))],
                  from_hex(SubSeq(payload, 4, 5)),
                  IF Len(payload) = 7 THEN None
                  ELSE Some(from_hex(SubSeq(payload, 6, 7)))))
  ELSE Err("invalid payload")

\* a payload that is not the notation of a Message
Malformed == <<"not json">>

\* RedisManager::new, with the broker and the threads of the manager: the
\* error channel is created and its receiver kept; nothing is published, no
\* subscriber thread and no publisher thread runs; invoking holds the
\* messages the message processor is running on, where the model follows an
\* invocation from its start to its return
RedisManager_new ==
  [ error_receiver |-> Some("receiver"),
    error_sent     |-> 0,
    handed_out     |-> 0,
    calls          |-> 0,
    caller         |-> "running",
    publisher      |-> None,
    published      |-> {},
    log            |-> <<>>,
    subscribed     |-> {},
    queue          |-> <<>>,
    handled        |-> <<>>,
    invoking       |-> {},
    thread         |-> "none" ]

\* variant of publish in which the broker pushes the newest message first
publish_newest_first(self, to, payload) ==
  [ self EXCEPT
      !.published = @ \cup {[channel |-> to, payload |-> payload]},
      !.log       = Append(@, [channel |-> to, payload |-> payload,
                               started |-> self.thread # "none"]),
      !.queue     = IF to \in self.subscribed
                    THEN <<[channel |-> to, payload |-> payload]>> \o @
                    ELSE @ ]

\* conn.publish(to, payload): the broker takes the message (log keeps the
\* order of the publishes and whether start had returned) and pushes it to
\* the subscriber when the subscriber listens on the channel; a message on
\* a channel nobody listens on is gone
publish(self, to, payload) ==
  [ self EXCEPT
      !.published = @ \cup {[channel |-> to, payload |-> payload]},
      !.log       = Append(@, [channel |-> to, payload |-> payload,
                               started |-> self.thread # "none"]),
      !.queue     = IF to \in self.subscribed
                    THEN Append(@, [channel |-> to, payload |-> payload])
                    ELSE @ ]

\* RedisManager::process_message: the publisher thread is spawned and the
\* caller joins it
process_message(self, op, message, to) ==
  [ self EXCEPT
      !.publisher = Some([op |-> op, channel |-> to,
                          payload |-> to_string(message)]),
      !.caller    = "joining" ]

\* the publisher thread: get_connection().unwrap(), the sleep and
\* conn.publish(..).unwrap(); then the join of the caller returns, or the
\* caller panics because the thread panicked
publisher_thread(self, broker_up) ==
  IF broker_up
  THEN [ self |-> [publish(self, self.publisher.val.channel,
                           self.publisher.val.payload)
                     EXCEPT !.publisher = None, !.caller = "running"],
         ret  |-> "published" ]
  ELSE [ self |-> [self EXCEPT !.publisher = None, !.caller = "panicked"],
         ret  |-> "connection failed" ]

\* variant of broadcast_message without the assertion on receiver_id
broadcast_message_unchecked(self, message) ==
  [ self |-> process_message(self, "broadcast_message", message,
                             BroadcastChannel),
    ret  |-> "joining" ]

\* RedisManager::broadcast_message, up to the join of the publisher thread
broadcast_message(self, message) ==
  IF message.receiver_id.some
  THEN [ self |-> [self EXCEPT !.caller = "panicked"],
         ret  |-> "assertion failed" ]
  ELSE [ self |-> process_message(self, "broadcast_message", message,
                                  BroadcastChannel),
         ret  |-> "joining" ]

\* variant of send_message that publishes on the broadcast channel
send_message_broadcast(self, message) ==
  IF ~message.receiver_id.some
  THEN [ self |-> [self EXCEPT !.caller = "panicked"],
         ret  |-> "assertion failed" ]
  ELSE [ self |-> process_message(self, "send_message", message,
                                  BroadcastChannel),
         ret  |-> "joining" ]

\* RedisManager::send_message, up to the join of the publisher thread
send_message(self, message) ==
  IF ~message.receiver_id.some
  THEN [ self |-> [self EXCEPT !.caller = "panicked"],
         ret  |-> "assertion failed" ]
  ELSE [ self |-> process_message(self, "send_message", message,
                                  channel_name(message.receiver_id.val)),
         ret  |-> "joining" ]

\* variant of error_handler that hands out a copy and keeps the receiver
error_handler_keeps(self) ==
  [ self |-> [self EXCEPT !.calls = @ + 1,
                          !.handed_out =
                             IF self.error_receiver.some THEN @ + 1 ELSE @],
    ret  |-> self.error_receiver ]

\* RedisManager::error_handler: self.error_receiver.take()
error_handler(self) ==
  [ self |-> [self EXCEPT !.error_receiver = None,
                          !.calls = @ + 1,
                          !.handed_out =
                             IF self.error_receiver.some THEN @ + 1 ELSE @],
    ret  |-> self.error_receiver ]

\* RedisManager::subscribe: the subscriber thread is spawned
subscribe(self) == [self EXCEPT !.thread = "spawned"]

\* RedisManager::start
start(self) == subscribe(self)

\* inner_subscribe: client.get_connection()? and conn.subscribe on the two
\* channels; a connection error is sent on the error channel and the thread
\* ends
inner_subscribe(self, id, broker_up) ==
  IF broker_up
  THEN [self EXCEPT !.thread = "subscribed",
                    !.subscribed = {BroadcastChannel, channel_name(id)}]
  ELSE [self EXCEPT !.thread = "terminated", !.error_sent = @ + 1]

\* variant of on_message in which Break does not end the subscription
on_message_ignores_break(self, flow) ==
  IF ~from_str(Head(self.queue).payload).ok
  THEN [self EXCEPT !.thread = "panicked", !.subscribed = {},
                    !.queue = <<>>]
  ELSE [self EXCEPT !.queue = Tail(@),
                    !.handled = Append(@, Head(self.queue))]

\* the closure given to conn.subscribe, on the message at the head of the
\* queue: a payload that does not decode panics the thread; a decoded
\* message goes to the message processor (handled keeps what it was given),
\* whose Break ends the subscription
on_message(self, flow) ==
  IF ~from_str(Head(self.queue).payload).ok
  THEN [self EXCEPT !.thread = "panicked", !.subscribed = {},
                    !.queue = <<>>]
  ELSE IF flow = "Break"
  THEN [self EXCEPT !.thread = "returning", !.subscribed = {},
                    !.queue = <<>>,
                    !.handled = Append(@, Head(self.queue))]
  ELSE [self EXCEPT !.queue = Tail(@),
                    !.handled = Append(@, Head(self.queue))]

\* variant of invoke_handler with a subscriber thread for each channel: a
\* message is taken while the message processor runs on a message of the
\* other channel
invoke_handler_per_channel(self) ==
  IF \E m \in self.invoking : m.channel = Head(self.queue).channel THEN self
  ELSE IF ~from_str(Head(self.queue).payload).ok THEN on_message(self, "Continue")
  ELSE [self EXCEPT !.queue = Tail(@), !.invoking = @ \cup {Head(self.queue)}]

\* the closure given to conn.subscribe is called on the message at the head
\* of the queue: the one subscriber thread takes the next message of either
\* channel only when it is not inside the closure; the payload is decoded
\* (the thread panics when that fails) and message_processor(message) starts
invoke_handler(self) ==
  IF self.invoking # {} THEN self
  ELSE IF ~from_str(Head(self.queue).payload).ok THEN on_message(self, "Continue")
  ELSE [self EXCEPT !.queue = Tail(@), !.invoking = {Head(self.queue)}]

\* message_processor(message) returns flow to the closure: Break ends the
\* subscription
handler_returns(self, message, flow) ==
  IF flow = "Break"
  THEN [self EXCEPT !.thread = "returning", !.subscribed = {},
                    !.queue = <<>>,
                    !.handled = Append(@, message),
                    !.invoking = @ \ {message}]
  ELSE [self EXCEPT !.handled = Append(@, message),
                    !.invoking = @ \ {message}]

\* conn.subscribe returns an error when the connection is lost; the error
\* is sent on the error channel and the thread ends
connection_lost(self) ==
  [self EXCEPT !.thread = "terminated", !.subscribed = {}, !.queue = <<>>,
               !.error_sent = @ + 1]

(* ------------------------ process_candidateblock ----------------------- *)

\* the 1-based index of a signer of the federation
index_of(signer, params) ==
  CHOOSE i \in 1 .. Len(params.pubkey_list) : params.pubkey_list[i] = signer

\* the Blockvss the node sends to each participant: the VSS of block_key and
\* of its negation, with the share of the receiver
own_blockvss(block, block_key, prev_state, params) ==
  { Message(Blockvss(block.sighash,
                     VssPair(block_key, index_of(j, params), 0, 0)),
            params.signer_id, Some(j)) : j \in prev_state.participants }

\* process_candidateblock: a Member takes the block of the round's Master,
\* draws block_key and sends its Blockvss to each participant; a
\* Candidateblock of another sender, or in another state, is dropped
process_candidateblock(sender_id, block, block_key, prev_state, params) ==
  IF prev_state.tag # "Member"
  THEN [state |-> prev_state, sent |-> {}]
  ELSE IF sender_id # params.pubkey_list[prev_state.master_index + 1]
  THEN [state |-> prev_state, sent |-> {}]
  ELSE [ state |-> Member_build(
                     set_candidate_block(
                       set_block_key(Member_from_node_state(prev_state),
                                     Some(block_key)),
                       Some(block))),
         sent  |-> own_blockvss(block, block_key, prev_state, params) ]

(* ------------------------- process_roundfailure ------------------------ *)

\* the master index of the round the driver is in: a Master is the master
\* itself, a Member and a RoundComplete carry the index, and a node that is
\* Joining or Idling holds none, so the driver's index is any of the
\* federation
RoundMasterIndexes(prev_state, params) ==
  IF prev_state.tag = "Master" THEN {params.self_node_index}
  ELSE IF prev_state.tag \in {"Member", "RoundComplete"}
       THEN {prev_state.master_index}
       ELSE 0 .. (Len(params.pubkey_list) - 1)

\* NodeState::block_height, with no height learnt yet while Joining
height_of(prev_state) ==
  IF prev_state.tag = "Joining" THEN 0 ELSE prev_state.block_height

\* next_master_index = current + 1 mod N
next_master_index(master_index, params) ==
  (master_index + 1) % Len(params.pubkey_list)

\* process_roundfailure and the round timeout: the round is given up
process_roundfailure(prev_state, params, master_index) ==
  RoundComplete(master_index, next_master_index(master_index, params),
                height_of(prev_state))

(* ------------------------ public keys on the wire ---------------------- *)

\* x-coordinate of k*G for k = 1 .. GroupOrder - 1
XCoorTable ==
  <<  2,  7, 35, 21, 12, 29, 25, 32, 20, 42,
     40, 37, 13, 34, 38, 38, 34, 13, 37, 40,
     42, 20, 32, 25, 29, 12, 21, 35,  7,  2 >>

x_coor(point) == XCoorTable[point]

Points == 1 .. (GroupOrder - 1)

\* bitcoin::PublicKey {compressed, key}: key is the point key * G
PublicKey(compressed, key) == [compressed |-> compressed, key |-> key]

PublicKeys == {PublicKey(c, k) : c \in BOOLEAN, k \in Points}

\* SignerID::new
SignerID(pubkey) == [pubkey |-> pubkey]

\* PublicKey::serialize: of a compressed key the byte 2 or 3 (y even or odd)
\* and x, of an uncompressed key the byte 4, x and y (a coordinate is one
\* byte in this model)
serialize_key(pubkey) ==
  IF pubkey.compressed
  THEN <<2 + (y_coor(pubkey.key) % 2), x_coor(pubkey.key)>>
  ELSE <<4, x_coor(pubkey.key), y_coor(pubkey.key)>>

\* variant of from_slice that does not read the parity of y
from_slice_any_parity(data) ==
  LET on_curve == {k \in Points : x_coor(k) = data[2]}
  IN  IF Len(data) = 2 /\ data[1] \in {2, 3} /\ on_curve # {}
      THEN Ok(PublicKey(TRUE, CHOOSE k \in on_curve : TRUE))
      ELSE Err("InvalidKey")

\* PublicKey::from_slice: the length tells whether the key is compressed, the
\* point is recovered from x and the parity of y, or from x and y
from_slice(data) ==
  IF Len(data) = 2 /\ data[1] \in {2, 3}
  THEN LET on_curve == {k \in Points : /\ x_coor(k) = data[2]
                                       /\ y_coor(k) % 2 = data[1] - 2}
       IN  IF on_curve # {}
           THEN Ok(PublicKey(TRUE, CHOOSE k \in on_curve : TRUE))
           ELSE Err("InvalidKey")
  ELSE IF Len(data) = 3 /\ data[1] = 4
  THEN LET on_curve == {k \in Points : /\ x_coor(k) = data[2]
                                       /\ y_coor(k) = data[3]}
       IN  IF on_curve # {}
           THEN Ok(PublicKey(FALSE, CHOOSE k \in on_curve : TRUE))
           ELSE Err("InvalidKey")
  ELSE Err("InvalidKey")

DigitValue(char, digits) == (CHOOSE i \in 1 .. Len(digits) : digits[i] = char) - 1

RECURSIVE encode_bytes(_, _)
\* the bytes written with two digits of the base each
encode_bytes(bytes, digits) ==
  IF bytes = <<>> THEN <<>>
  ELSE <<digits[(Head(bytes) \div Len(digits)) + 1],
         digits[(Head(bytes) % Len(digits)) + 1]>>
         \o encode_bytes(Tail(bytes), digits)

RECURSIVE decode_bytes(_, _)
\* the bytes of a text of two digits of the base each
decode_bytes(text, digits) ==
  IF text = <<>> THEN <<>>
  ELSE <<Len(digits) * DigitValue(text[1], digits) + DigitValue(text[2], digits)>>
         \o decode_bytes(SubSeq(text, 3, Len(text)), digits)

IsEncodedBytes(text, digits) ==
  /\ Len(text) % 2 = 0
  /\ \A i \in 1 .. Len(text) : \E d \in 1 .. Len(digits) : digits[d] = text[i]

\* serializer.serialize_bytes of serde_json: the array of the bytes, in
\* decimal
serialize_bytes(bytes) == <<"[">> \o encode_bytes(bytes, SubSeq(HexDigits, 1, 10)) \o <<"]">>

\* deserializer.deserialize_byte_buf(ByteBufVisitor) of serde_json: the bytes
\* of an array of numbers, an error for any other text
deserialize_byte_buf(text) ==
  IF /\ Len(text) >= 2
     /\ text[1] = "["
     /\ text[Len(text)] = "]"
     /\ IsEncodedBytes(SubSeq(text, 2, Len(text) - 1), SubSeq(HexDigits, 1, 10))
  THEN Ok(decode_bytes(SubSeq(text, 2, Len(text) - 1), SubSeq(HexDigits, 1, 10)))
  ELSE Err("invalid type")

\* a panic of the thread that called
Panic(e) == [ok |-> FALSE, panic |-> e]

\* impl Serialize for SignerID
SignerID_serialize(id) == serialize_bytes(serialize_key(id.pubkey))

\* impl Deserialize for SignerID: from_slice(&vec).unwrap()
SignerID_deserialize(text) ==
  LET vec == deserialize_byte_buf(text)
  IN  IF ~vec.ok THEN vec
      ELSE IF ~from_slice(vec.val).ok THEN Panic(from_slice(vec.val).err)
      ELSE Ok(SignerID(from_slice(vec.val).val))

(* ----------------------------- createnodevss --------------------------- *)

\* Display of a public key: the hexadecimal notation of its serialization
PublicKey_fmt(pubkey) == encode_bytes(serialize_key(pubkey), HexDigits)

\* PublicKey::from_str: the key of a hexadecimal notation
PublicKey_from_str(key) ==
  IF IsEncodedBytes(key, HexDigits)
  THEN from_slice(decode_bytes(key, HexDigits))
  ELSE Err("InvalidHex")

\* the derived Ord of bitcoin::PublicKey: by the compressed flag, then by
\* the key (its coordinates)
PublicKey_lt(a, b) ==
  \/ ~a.compressed /\ b.compressed
  \/ /\ a.compressed = b.compressed
     /\ \/ x_coor(a.key) < x_coor(b.key)
        \/ x_coor(a.key) = x_coor(b.key) /\ y_coor(a.key) < y_coor(b.key)

\* bitcoin::PrivateKey {compressed, key}
PrivateKey(key) == [compressed |-> TRUE, key |-> key]

\* the check digit of a WIF (the network prefix, the key, the check digit)
wif_checksum(text) == HexDigits[((DigitValue(text[1], HexDigits) + DigitValue(text[2], HexDigits)) % 16) + 1]

\* PrivateKey::from_wif
from_wif(wif) ==
  IF /\ Len(wif) = 4
     /\ wif[1] = "c"
     /\ IsEncodedBytes(SubSeq(wif, 2, 3), HexDigits)
     /\ wif[4] = wif_checksum(SubSeq(wif, 2, 3))
     /\ from_hex(SubSeq(wif, 2, 3)) \in 1 .. (GroupOrder - 1)
  THEN Ok(PrivateKey(from_hex(SubSeq(wif, 2, 3))))
  ELSE Err("Base58")

\* PublicKey::from_private_key
from_private_key(private_key) == PublicKey(private_key.compressed, private_key.key)

\* Error::InvalidArgs(field), Error::InvalidKey
InvalidArgs(field) == [tag |-> "InvalidArgs", field |-> field]

InvalidKey == [tag |-> "InvalidKey"]

RECURSIVE insert_sorted(_, _)
\* seq with key put before the first element that is greater
insert_sorted(seq, key) ==
  IF seq = <<>> THEN <<key>>
  ELSE IF PublicKey_lt(key, Head(seq)) THEN <<key>> \o seq
  ELSE <<Head(seq)>> \o insert_sorted(Tail(seq), key)

RECURSIVE sort(_)
\* public_keys.sort()
sort(public_keys) ==
  IF public_keys = <<>> THEN <<>>
  ELSE insert_sorted(sort(SubSeq(public_keys, 1, Len(public_keys) - 1)),
                     public_keys[Len(public_keys)])

\* Vss::create_node_shares(private_key, n): the commitments of a polynomial
\* whose constant term is the private key and whose other coefficient is
\* drawn at random, and the value of the polynomial at 1 .. n
create_node_shares(private_key, n, coefficient) ==
  LET commitments == <<private_key.key, coefficient>>
  IN  [ vss_scheme    |-> [ parameters  |-> [threshold |-> 1, share_count |-> n],
                            commitments |-> commitments ],
        secret_shares |-> [j \in 1 .. n |-> poly_eval(commitments, j, 1)] ]

\* Vss::new
Vss_new(sender, receiver, positive_commitments, positive_secret, negative_commitments, negative_secret) ==
  [ sender_public_key    |-> sender,
    receiver_public_key  |-> receiver,
    positive_commitments |-> positive_commitments,
    positive_secret      |-> positive_secret,
    negative_commitments |-> negative_commitments,
    negative_secret      |-> negative_secret ]

\* Display of a Vss: the hexadecimal notation of its fields
Vss_fmt(vss) ==
  PublicKey_fmt(vss.sender_public_key)
    \o PublicKey_fmt(vss.receiver_public_key)
    \o encode_bytes(vss.positive_commitments, HexDigits)
    \o hex(vss.positive_secret)
    \o encode_bytes(vss.negative_commitments, HexDigits)
    \o hex(vss.negative_secret)

RECURSIVE insert_all(_, _, _, _, _)
\* the loop of execute over j: a Vss for public_keys[j] is inserted
insert_all(vss_map, j, public_keys, shares, sender_public_key) ==
  IF j > Len(public_keys) THEN vss_map
  ELSE insert_all(MapInsert(vss_map, public_keys[j],
                            Vss_new(sender_public_key, public_keys[j],
                                    shares.vss_scheme.commitments,
                                    shares.secret_shares[j],
                                    shares.vss_scheme.commitments,
                                    shares.secret_shares[j])),
                  j + 1, public_keys, shares, sender_public_key)

\* CreateNodeVssResponse::new
CreateNodeVssResponse(vss) == [vss |-> vss]

\* variant of BTreeMap_iter that goes from the greatest key to the least
BTreeMap_iter_descending(map) ==
  LET n == Cardinality(DOMAIN map)
  IN  [i \in 1 .. n |->
         CHOOSE k \in DOMAIN map :
           Cardinality({o \in DOMAIN map : PublicKey_lt(k, o)}) = i - 1]

\* BTreeMap::iter: the keys from the least to the greatest
BTreeMap_iter(map) ==
  LET n == Cardinality(DOMAIN map)
  IN  [i \in 1 .. n |->
         CHOOSE k \in DOMAIN map :
           Cardinality({o \in DOMAIN map : PublicKey_lt(o, k)}) = i - 1]

\* impl Display for CreateNodeVssResponse: the lines format!("{}:{}", k, v),
\* which the output holds one after the other, a newline between two
lines_of(response) ==
  LET keys == BTreeMap_iter(response.vss)
  IN  [i \in 1 .. Len(keys) |->
         PublicKey_fmt(keys[i]) \o <<":">> \o Vss_fmt(response.vss[keys[i]])]

\* variant of execute that reads the public keys before the private key
execute_keys_first(matches, coefficient) ==
  LET private_key == IF matches.private_key.some
                     THEN from_wif(matches.private_key.val)
                     ELSE Err("absent")
      parsed == [i \in 1 .. Len(matches.public_key) |->
                   PublicKey_from_str(matches.public_key[i])]
      public_keys == sort([i \in 1 .. Len(parsed) |-> parsed[i].val])
      shares == create_node_shares(private_key.val, Len(public_keys), coefficient)
  IN  IF matches.public_key = <<>> THEN Err(InvalidArgs("public_key"))
      ELSE IF \E i \in 1 .. Len(parsed) : ~parsed[i].ok THEN Err(InvalidKey)
      ELSE IF ~private_key.ok THEN Err(InvalidArgs("private_key"))
      ELSE Ok(CreateNodeVssResponse(
                insert_all(EmptyMap, 1, public_keys, shares,
                           from_private_key(private_key.val))))

\* CreateNodeVssCommand::execute; matches holds the values of --private_key
\* (None when absent) and of --public_key (empty when absent), coefficient
\* is the draw of create_node_shares
execute(matches, coefficient) ==
  LET private_key == IF matches.private_key.some
                     THEN from_wif(matches.private_key.val)
                     ELSE Err("absent")
      parsed == [i \in 1 .. Len(matches.public_key) |->
                   PublicKey_from_str(matches.public_key[i])]
      public_keys == sort([i \in 1 .. Len(parsed) |-> parsed[i].val])
      shares == create_node_shares(private_key.val, Len(public_keys), coefficient)
  IN  IF ~private_key.ok THEN Err(InvalidArgs("private_key"))
      ELSE IF matches.public_key = <<>> THEN Err(InvalidArgs("public_key"))
      ELSE IF \E i \in 1 .. Len(parsed) : ~parsed[i].ok THEN Err(InvalidKey)
      ELSE Ok(CreateNodeVssResponse(
                insert_all(EmptyMap, 1, public_keys, shares,
                           from_private_key(private_key.val))))

(* --------------------------- the signer node --------------------------- *)

VARIABLES
  params,   \* NodeParameters of the node, fixed for the life of the process
  state,    \* the NodeState the round driver owns
  last,     \* the last step of the node: the operation and, of a
            \* processor call, the return it took
  inflight, \* the messages of the round that are published and not yet
            \* handed to the node (used by RoundSpec)
  redis     \* the RedisManager of the node, with the broker and the
            \* subscriber thread it talks to (used by NetSpec)

vars == <<params, state, last, inflight, redis>>

\* the outcomes of Sign::sign a process_blockvss call on prev_state may
\* meet: drawn where the call can reach Sign::sign
SignInputs(prev_state, p, sender_id) ==
  IF /\ prev_state.tag \in {"Master", "Member"}
     /\ Cardinality(DOMAIN prev_state.shared_block_secrets \cup {sender_id})
          = Len(p.pubkey_list)
  THEN SignOutcomes
  ELSE {TRUE}

\* the inputs of a process_blockvss call on the node in prev_state
BlockvssInputs(prev_state, p) ==
  UNION { UNION { { [ sender_id |-> s, blockhash |-> h, pair |-> pr,
                      sign_ok |-> so ] :
                    so \in SignInputs(prev_state, p, s) } :
                  pr \in VssPairs(s, p.self_node_index + 1) } :
          s \in SignerIDs, h \in Hashes }

\* process_blockvss on the inputs in
ProcessOn(prev_state, p, in) ==
  process_blockvss(in.sender_id, in.blockhash, in.pair, priv_shared_keys,
                   prev_state, p, in.sign_ok)

\* the 0-based index of the node in the federation: the first or the last
\* signer
SelfIndexes == {0, NumSigners - 1}

\* the participants a Master declares: the first k signers of the federation
ParticipantSets ==
  {{pubkey_list[i] : i \in 1 .. k} : k \in Threshold .. NumSigners}

\* the candidate block of a round
RoundBlock == Block(CHOOSE h \in Hashes : TRUE)

\* the block key a node draws for a round
RoundBlockKey == CHOOSE k \in BlockKeys : TRUE

\* round driver: the state of the Master at the start of the round at height
\* h, with the participants ps
MasterAtStart(ps, h) ==
  [ tag                  |-> "Master",
    block_key            |-> Some(RoundBlockKey),
    shared_block_secrets |-> EmptyMap,
    block_shared_keys    |-> None,
    candidate_block      |-> Some(RoundBlock),
    signatures           |-> EmptyMap,
    participants         |-> ps,
    round_is_done        |-> FALSE,
    block_height         |-> h ]

\* round driver: the state of a Member at the start of the round at height
\* h, whose master has the index m and declared the participants ps
MemberAtStart(ps, m, h) ==
  [ tag                  |-> "Member",
    block_key            |-> None,
    shared_block_secrets |-> EmptyMap,
    block_shared_keys    |-> None,
    candidate_block      |-> None,
    participants         |-> ps,
    master_index         |-> m,
    block_height         |-> h ]

Init ==
  /\ params \in {NodeParameters(idx) : idx \in SelfIndexes}
  /\ state = Joining
  /\ last = [op |-> "init"]
  /\ inflight = {}
  /\ redis = RedisManager_new

\* round driver, round start: the node learns the height and the master of
\* the round; it is Master iff the master index is its own index
StartRound ==
  /\ state.tag \in {"Joining", "Idling", "RoundComplete"}
  /\ \E h \in 1 .. MaxHeight, m \in 0 .. (NumSigners - 1),
        ps \in ParticipantSets :
       /\ state.tag = "Idling" => h = state.block_height + 1
       /\ state.tag = "RoundComplete" =>
            /\ h \in {state.block_height, state.block_height + 1}
            /\ m = state.next_master_index
       /\ state' =
            IF m = params.self_node_index
            THEN MasterAtStart(ps, h)
            ELSE MemberAtStart(ps, m, h)
       /\ last' = [op |-> "start_round"]
  /\ UNCHANGED <<params, inflight, redis>>

\* round driver: the node does not take part in the round at height h
GoIdle ==
  /\ state.tag = "Joining"
  /\ \E h \in 0 .. (MaxHeight - 1) : state' = Idling(h)
  /\ last' = [op |-> "idle"]
  /\ UNCHANGED <<params, inflight, redis>>

\* the driver hands a Candidateblock message to process_candidateblock and
\* replaces the state by the state returned
ProcessCandidateblock ==
  /\ state.tag = "Member"
  /\ \E sender \in Federation :
       /\ sender = pubkey_list[state.master_index + 1]
       /\ state' = process_candidateblock(sender, RoundBlock, RoundBlockKey,
                                          state, params).state
       /\ last' = [op |-> "process_candidateblock"]
  /\ UNCHANGED <<params, inflight, redis>>

\* the driver hands a Blockvss message to process_blockvss and replaces the
\* state by the state returned
ProcessBlockvss ==
  /\ \E in \in BlockvssInputs(state, params) :
       LET out == ProcessOn(state, params, in)
       IN  /\ state' = out.state
           /\ last' = [op |-> "process_blockvss", ret |-> out.ret]
  /\ UNCHANGED <<params, inflight, redis>>

\* the driver hands a Blocksig message to process_blocksig and replaces the
\* state by the state returned
ProcessBlocksig ==
  /\ state.tag = "Master"
  /\ \E in \in BlocksigInputs :
       LET out == process_blocksig(in.sender_id, in.blockhash, in.gamma_i,
                                   in.e, state, params)
       IN  /\ state' = out.state
           /\ last' = [op |-> "process_blocksig", ret |-> out.ret]
  /\ UNCHANGED <<params, inflight, redis>>

\* a Roundfailure is received, or the round timer expires and the driver
\* injects one
ProcessRoundfailure ==
  /\ \E m \in RoundMasterIndexes(state, params) :
       state' = process_roundfailure(state, params, m)
  /\ last' = [op |-> "process_roundfailure"]
  /\ UNCHANGED <<params, inflight, redis>>

Next ==
  \/ StartRound
  \/ GoIdle
  \/ ProcessCandidateblock
  \/ ProcessBlockvss
  \/ ProcessBlocksig
  \/ ProcessRoundfailure

Spec == Init /\ [][Next]_vars

\* the round timer: a single wall-clock deadline per round, on whose expiry
\* the driver injects a Roundfailure
TimeoutSpec == Init /\ [][Next]_vars /\ WF_vars(ProcessRoundfailure)

(* ------------------- one round of a Master, delivered ------------------ *)

\* the Blockvss messages of the signers in senders for the node at idx, one
\* of each, for the candidate block of the round: every choice of pairs
RoundBlockvss(senders, idx) ==
  { { Message(Blockvss(RoundBlock.sighash, f[s]), s, None) : s \in senders } :
      f \in { g \in [senders -> UNION {VssPairs(s, idx + 1) : s \in senders}] :
                \A s \in senders : g[s] \in VssPairs(s, idx + 1) } }

\* the Blocksig messages of the signers in signers for the candidate block
RoundBlocksig(signers) ==
  { Message(Blocksig(RoundBlock.sighash, 1, 1), s, None) : s \in signers }

\* a Master at the start of its round; in flight are the Blockvss of the
\* participants or of the whole federation, and the Blocksig of T or more
\* participants
MasterRoundInit ==
  \E idx \in SelfIndexes, ps \in ParticipantSets :
    \E senders \in {ps, Federation}, signers \in SUBSET ps :
      \E vss \in RoundBlockvss(senders, idx) :
        /\ Cardinality(signers) >= Threshold
        /\ params = NodeParameters(idx)
        /\ state = MasterAtStart(ps, 1)
        /\ last = [op |-> "start_round"]
        /\ inflight = vss \cup RoundBlocksig(signers)
        /\ redis = RedisManager_new

\* a Member at the start of a round of another signer; in flight are the
\* Candidateblock of the master and the Blockvss of the other signers, in no
\* order; the node's own Blockvss is sent when it takes the Candidateblock
MemberRoundInit ==
  \E idx \in SelfIndexes, ps \in ParticipantSets :
    \E m \in (0 .. (NumSigners - 1)) \ {idx} :
      \E vss \in RoundBlockvss(Federation \ {pubkey_list[idx + 1]}, idx) :
        /\ params = NodeParameters(idx)
        /\ state = MemberAtStart(ps, m, 1)
        /\ last = [op |-> "start_round"]
        /\ inflight = vss \cup {Message(Candidateblock(RoundBlock),
                                        pubkey_list[m + 1], None)}
        /\ redis = RedisManager_new

RoundInit == MasterRoundInit \/ MemberRoundInit

\* the Candidateblock in flight reaches the node; the Blockvss the node
\* sends to itself is in flight from then on
DeliverCandidateblock ==
  /\ \E m \in inflight :
       /\ m.message_type.type = "Candidateblock"
       /\ LET out == process_candidateblock(m.sender_id, m.message_type.block,
                                            RoundBlockKey, state, params)
          IN  /\ state' = out.state
              /\ inflight' = (inflight \ {m}) \cup
                   {x \in out.sent : x.receiver_id = Some(params.signer_id)}
       /\ last' = [op |-> "process_candidateblock"]
  /\ UNCHANGED <<params, redis>>

\* a Blockvss in flight reaches the node
DeliverBlockvss ==
  /\ \E m \in inflight :
       /\ m.message_type.type = "Blockvss"
       /\ \E so \in SignInputs(state, params, m.sender_id) :
            LET out == process_blockvss(m.sender_id, m.message_type.blockhash,
                                        m.message_type.pair, priv_shared_keys,
                                        state, params, so)
            IN  /\ state' = out.state
                /\ last' = [op |-> "process_blockvss", ret |-> out.ret]
       /\ inflight' = inflight \ {m}
  /\ UNCHANGED <<params, redis>>

\* a Blocksig in flight reaches the node
DeliverBlocksig ==
  /\ \E m \in inflight :
       /\ m.message_type.type = "Blocksig"
       /\ LET out == process_blocksig(m.sender_id, m.message_type.blockhash,
                                      m.message_type.gamma_i,
                                      m.message_type.e, state, params)
          IN  /\ state' = out.state
              /\ last' = [op |-> "process_blocksig", ret |-> out.ret]
       /\ inflight' = inflight \ {m}
  /\ UNCHANGED <<params, redis>>

RoundNext ==
  \/ DeliverCandidateblock
  \/ DeliverBlockvss
  \/ DeliverBlocksig

\* a message of the given type leaves the channel: under RoundNext these are
\* exactly the steps of the Deliver action of the type
Taken(type) ==
  \E m \in inflight :
    /\ m.message_type.type = type
    /\ inflight' = inflight \ {m}

\* every message in flight is delivered before the round times out
RoundSpec ==
  /\ RoundInit
  /\ [][RoundNext]_vars
  /\ WF_inflight(Taken("Candidateblock"))
  /\ WF_inflight(Taken("Blockvss"))
  /\ WF_inflight(Taken("Blocksig"))

(* ------------------- the connection manager at work -------------------- *)

\* publishes on the broker at most
MaxPublish == 2

\* calls of error_handler at most
MaxCalls == 2

\* the messages the node hands to its connection manager: two broadcasts and
\* two messages to each of the first two signers
NetMessages ==
  { Message(t, params.signer_id, r) :
      t \in {Roundfailure, Candidateblock(RoundBlock)},
      r \in {None} \cup {Some(pubkey_list[i]) : i \in 1 .. 2} }

\* the broker takes one more publish
CanPublish == Len(redis.log) < MaxPublish

NetInit ==
  /\ params \in {NodeParameters(idx) : idx \in SelfIndexes}
  /\ state = Joining
  /\ last = [op |-> "new"]
  /\ inflight = {}
  /\ redis = RedisManager_new

\* the node calls start(handler, self_id)
Start ==
  /\ redis.caller = "running"
  /\ redis.thread = "none"
  /\ redis' = start(redis)
  /\ last' = [op |-> "start"]
  /\ UNCHANGED <<params, state, inflight>>

\* the subscriber thread connects and subscribes, or fails to connect
InnerSubscribe ==
  /\ redis.thread = "spawned"
  /\ \E broker_up \in BOOLEAN :
       /\ redis' = inner_subscribe(redis, params.signer_id, broker_up)
       /\ last' = [op  |-> "inner_subscribe",
                   ret |-> IF broker_up THEN "subscribed"
                                        ELSE "connection failed"]
  /\ UNCHANGED <<params, state, inflight>>

\* the node calls broadcast_message: the call fails its assertion, or the
\* publisher thread is spawned and the caller waits in join
BroadcastMessage ==
  /\ redis.caller = "running"
  /\ CanPublish
  /\ \E message \in NetMessages :
       LET out == broadcast_message(redis, message)
       IN  /\ redis' = out.self
           /\ last' = [op |-> "broadcast_message", ret |-> out.ret]
  /\ UNCHANGED <<params, state, inflight>>

\* the node calls send_message: the call fails its assertion, or the
\* publisher thread is spawned and the caller waits in join
SendMessage ==
  /\ redis.caller = "running"
  /\ CanPublish
  /\ \E message \in NetMessages :
       LET out == send_message(redis, message)
       IN  /\ redis' = out.self
           /\ last' = [op |-> "send_message", ret |-> out.ret]
  /\ UNCHANGED <<params, state, inflight>>

\* the publisher thread does its broker I/O and ends; the join of the
\* caller returns
PublisherThread ==
  /\ redis.publisher.some
  /\ \E broker_up \in BOOLEAN :
       LET out == publisher_thread(redis, broker_up)
       IN  /\ redis' = out.self
           /\ last' = [op |-> redis.publisher.val.op, ret |-> out.ret]
  /\ UNCHANGED <<params, state, inflight>>

\* another client of the broker publishes a payload that is no Message
ForeignPublish ==
  /\ CanPublish
  /\ \E to \in {BroadcastChannel, channel_name(params.signer_id)} :
       redis' = publish(redis, to, Malformed)
  /\ last' = [op |-> "foreign_publish"]
  /\ UNCHANGED <<params, state, inflight>>

\* the subscriber thread takes the next message; the message processor
\* returns Continue or Break for a message that decodes
OnMessage ==
  /\ redis.thread = "subscribed"
  /\ redis.queue # <<>>
  /\ \E flow \in {"Continue", "Break"} :
       /\ redis' = on_message(redis, flow)
       /\ last' = IF from_str(Head(redis.queue).payload).ok
                  THEN [op |-> "message_processor", ret |-> flow]
                  ELSE [op |-> "panic"]
  /\ UNCHANGED <<params, state, inflight>>

\* the connection of the subscriber is lost
ConnectionLost ==
  /\ redis.thread = "subscribed"
  /\ redis' = connection_lost(redis)
  /\ last' = [op |-> "connection_lost"]
  /\ UNCHANGED <<params, state, inflight>>

\* conn.subscribe has returned Ok: the subscriber thread ends
ThreadExit ==
  /\ redis.thread = "returning"
  /\ redis' = [redis EXCEPT !.thread = "terminated"]
  /\ last' = [op |-> "thread_exit"]
  /\ UNCHANGED <<params, state, inflight>>

\* the node calls error_handler
ErrorHandler ==
  /\ redis.caller = "running"
  /\ redis.calls < MaxCalls
  /\ LET out == error_handler(redis)
     IN  /\ redis' = out.self
         /\ last' = [op  |-> "error_handler",
                     ret |-> IF out.ret.some THEN "Some" ELSE "None"]
  /\ UNCHANGED <<params, state, inflight>>

NetNext ==
  \/ Start
  \/ InnerSubscribe
  \/ BroadcastMessage
  \/ SendMessage
  \/ PublisherThread
  \/ ForeignPublish
  \/ OnMessage
  \/ ConnectionLost
  \/ ThreadExit
  \/ ErrorHandler

\* a thread that runs keeps running: the subscriber thread connects, takes
\* the messages pushed to it and returns once conn.subscribe has returned;
\* the publisher thread does its I/O and ends
NetFairness ==
  /\ WF_vars(InnerSubscribe)
  /\ WF_vars(OnMessage)
  /\ WF_vars(ThreadExit)
  /\ WF_vars(PublisherThread)

NetSpec == NetInit /\ [][NetNext]_vars /\ NetFairness

(* --------------- the message processor, start to return ---------------- *)

\* the subscriber thread calls the closure on the next message
InvokeHandler ==
  /\ redis.thread = "subscribed"
  /\ redis.queue # <<>>
  /\ redis' = invoke_handler(redis)
  /\ redis' # redis
  /\ last' = [op |-> "invoke_handler"]
  /\ UNCHANGED <<params, state, inflight>>

\* the message processor returns Continue or Break
HandlerReturns ==
  /\ \E message \in redis.invoking, flow \in {"Continue", "Break"} :
       /\ redis' = handler_returns(redis, message, flow)
       /\ last' = [op |-> "message_processor", ret |-> flow]
  /\ UNCHANGED <<params, state, inflight>>

HandlerNext ==
  \/ Start
  \/ InnerSubscribe
  \/ BroadcastMessage
  \/ SendMessage
  \/ PublisherThread
  \/ ForeignPublish
  \/ InvokeHandler
  \/ HandlerReturns
  \/ ThreadExit

\* the connection manager with the invocations of the message processor
\* followed from their start to their return
HandlerSpec == NetInit /\ [][HandlerNext]_vars

(* ------------------- the setup command and the codec ------------------- *)

\* number of --public_key arguments of a createnodevss call, at most
MaxKeys == 3

\* the public keys of the signers the command is given
SetupKeys == {PublicKey(TRUE, 1), PublicKey(TRUE, 3), PublicKey(TRUE, GroupOrder - 1)}

\* values of --public_key: the notation of a key of a signer, a text that is
\* no hexadecimal notation, and the notation of an x that is on no point
PublicKeyArgs ==
  {PublicKey_fmt(k) : k \in SetupKeys} \cup {<<"x">>, <<"0", "2", "0", "0">>}

\* values of --private_key (a required argument): the WIF of a key, a text
\* that is no WIF
PrivateKeyArgs == {Some(<<"c", "0", "5", "5">>), Some(<<"x">>)}

\* the command lines of the model: --public_key is given one to MaxKeys
\* times (a required argument has a value)
Matches ==
  { [private_key |-> sk, public_key |-> pks] :
      sk \in PrivateKeyArgs,
      pks \in UNION {[1 .. m -> PublicKeyArgs] : m \in 1 .. MaxKeys} }

\* the coefficients create_node_shares may draw
Coefficients == {1, 2}

\* texts a peer may put on the wire in the place of a SignerID: bytes of no
\* key, and a text that is no array of bytes
WireTexts == {<<"[", "0", "2", "0", "0", "]">>, <<"{", "}">>}

SetupInit ==
  /\ params = NodeParameters(0)
  /\ state = Joining
  /\ last = [op |-> "new"]
  /\ inflight = {}
  /\ redis = RedisManager_new

\* serde_json::to_string(&signer_id)
SerializeSignerID ==
  /\ \E pubkey \in PublicKeys :
       last' = [op  |-> "serialize",
                arg |-> SignerID(pubkey),
                ret |-> SignerID_serialize(SignerID(pubkey))]
  /\ UNCHANGED <<params, state, inflight, redis>>

\* serde_json::from_str::<SignerID>(text), of the text just serialized or of
\* a text from the wire
DeserializeSignerID ==
  /\ \E text \in WireTexts \cup (IF last.op = "serialize" THEN {last.ret} ELSE {}) :
       last' = [op  |-> "deserialize",
                arg |-> text,
                of  |-> IF last.op = "serialize" /\ text = last.ret
                        THEN Some(last.arg) ELSE None,
                ret |-> SignerID_deserialize(text)]
  /\ UNCHANGED <<params, state, inflight, redis>>

\* CreateNodeVssCommand::execute(&matches): the command is the one thing its
\* process does
CreateNodeVss ==
  /\ last.op = "new"
  /\ \E matches \in Matches, coefficient \in Coefficients :
       last' = [op  |-> "createnodevss",
                arg |-> matches,
                ret |-> execute(matches, coefficient)]
  /\ UNCHANGED <<params, state, inflight, redis>>

SetupNext == SerializeSignerID \/ DeserializeSignerID \/ CreateNodeVss

SetupSpec == SetupInit /\ [][SetupNext]_vars

(* ------------------------------- claims -------------------------------- *)

\* the states that take a Blockvss: Member, and Master while the round runs
TakesBlockvss(s) ==
  \/ s.tag = "Member"
  \/ s.tag = "Master" /\ s.round_is_done = FALSE

\* the number of VSS pairs stored once the pair of sender_id is stored
CountAfter(s, sender_id) ==
  Cardinality(DOMAIN s.shared_block_secrets \cup {sender_id})

\* the pair the node holds for signer k once the pair of in is stored
PairAfter(s, in, k) ==
  IF k = in.sender_id THEN in.pair ELSE s.shared_block_secrets[k]

\* every share of both collections matches its commitment at the node's
\* index, once the pair of in is stored
AllVerifyAfter(s, p, in) ==
  \A k \in DOMAIN s.shared_block_secrets \cup {in.sender_id} :
    LET pr == PairAfter(s, in, k)
    IN  /\ validate_share(pr.positive.vss, pr.positive.secret_share,
                          p.self_node_index + 1)
        /\ validate_share(pr.negative.vss, pr.negative.secret_share,
                          p.self_node_index + 1)

\* every stored share of both collections matches its commitment
AllVerify(s, p) ==
  \A k \in DOMAIN s.shared_block_secrets :
    LET pr == s.shared_block_secrets[k]
    IN  /\ validate_share(pr.positive.vss, pr.positive.secret_share,
                          p.self_node_index + 1)
        /\ validate_share(pr.negative.vss, pr.negative.secret_share,
                          p.self_node_index + 1)

IsBlocksig(m) == m.message_type.type = "Blocksig"

\* sent is exactly one Blocksig for sighash, from the node, to everybody
OneBlocksig(sent, sighash, p) ==
  /\ Len(sent) = 1
  /\ IsBlocksig(sent[1])
  /\ sent[1].message_type.blockhash = sighash
  /\ sent[1].sender_id = p.signer_id
  /\ sent[1].receiver_id = None

\* the keys (x_i, Y) of one collection of the stored pairs
SumShares(s, branch) ==
  fe_sum([k \in DOMAIN s.shared_block_secrets |->
            s.shared_block_secrets[k][branch].secret_share],
         DOMAIN s.shared_block_secrets)

SumCommitments(s, branch) ==
  fe_sum([k \in DOMAIN s.shared_block_secrets |->
            s.shared_block_secrets[k][branch].vss.commitments[1]],
         DOMAIN s.shared_block_secrets)

\* block_shared_keys holds the keys of the branch it names
KeysOfNamedBranch(s) ==
  /\ s.block_shared_keys.some
  /\ LET keys   == s.block_shared_keys.val
         branch == IF keys[1] THEN "positive" ELSE "negative"
     IN  /\ keys[2] = SumShares(s, branch)
         /\ keys[3] = SumCommitments(s, branch)

\* C1 (as claimed): in a Master (round_is_done = false) or Member state
\* whose candidate block has another sighash than the blockhash of the
\* message, process_blockvss returns the previous state, whatever the number
\* of pairs stored.
C1_MismatchReturnsPrev ==
  \A in \in BlockvssInputs(state, params) :
    ( /\ TakesBlockvss(state)
      /\ state.candidate_block.some
      /\ state.candidate_block.val.sighash # in.blockhash )
    => ProcessOn(state, params, in).state = state

\* C2 (as claimed): in a Member state without candidate block,
\* process_blockvss returns the previous state and emits no message, for
\* every sender and every number of pairs stored.
C2_NoBlockReturnsPrev ==
  \A in \in BlockvssInputs(state, params) :
    (state.tag = "Member" /\ ~state.candidate_block.some)
    => /\ ProcessOn(state, params, in).state = state
       /\ ProcessOn(state, params, in).sent = <<>>

\* C3: in Joining, Idling, RoundComplete and in Master with round_is_done =
\* true, process_blockvss returns exactly the previous state and emits no
\* message.
C3_UnsupportedStateUnchanged ==
  \A in \in BlockvssInputs(state, params) :
    ~TakesBlockvss(state)
    => /\ ProcessOn(state, params, in).state = state
       /\ ProcessOn(state, params, in).sent = <<>>

\* C3 witness: a Blockvss was handed to a Master whose round is done
C3_Witness ==
  /\ state.tag = "Master"
  /\ state.round_is_done = TRUE
  /\ last.op = "process_blockvss"
  /\ last.ret = "InvalidNodeState"

\* C4: in a Master (round_is_done = false) or Member state, when the number
\* of pairs stored with the sender's pair is less than the number of
\* participants, process_blockvss returns the same variant, holding the
\* sender's pair, with block_shared_keys = None, and emits no Blocksig.
C4_BelowParticipantsStores ==
  \A in \in BlockvssInputs(state, params) :
    ( /\ TakesBlockvss(state)
      /\ CountAfter(state, in.sender_id) < Cardinality(state.participants) )
    => LET out == ProcessOn(state, params, in)
       IN  /\ out.state.tag = state.tag
           /\ in.sender_id \in DOMAIN out.state.shared_block_secrets
           /\ out.state.shared_block_secrets[in.sender_id] = in.pair
           /\ out.state.block_shared_keys = None
           /\ \A i \in 1 .. Len(out.sent) : ~IsBlocksig(out.sent[i])

\* C4 witness: a pair was stored and the node still holds fewer pairs than
\* the round has participants
C4_Witness ==
  /\ state.tag \in {"Master", "Member"}
  /\ last.op = "process_blockvss"
  /\ last.ret = "stored"
  /\ state.shared_block_secrets # EmptyMap
  /\ Cardinality(DOMAIN state.shared_block_secrets)
       < Cardinality(state.participants)
  /\ state.block_shared_keys = None

C7_VerificationFailureReturnsPrev ==
  \A in \in BlockvssInputs(state, params) :
    ( /\ TakesBlockvss(state)
      /\ CountAfter(state, in.sender_id) = Len(params.pubkey_list)
      /\ ~AllVerifyAfter(state, params, in) )
    => /\ ProcessOn(state, params, in).state = state
       /\ ProcessOn(state, params, in).sent = <<>>

\* C7 witness: the last call failed verification, and the node still misses
\* the pair of the signer that dealt the bad share
C7_Witness ==
  /\ state.tag \in {"Master", "Member"}
  /\ last.op = "process_blockvss"
  /\ last.ret = "InvalidSS"
  /\ state.candidate_block.some
  /\ \E in \in BlockvssInputs(state, params) :
       /\ CountAfter(state, in.sender_id) = Len(params.pubkey_list)
       /\ validate_share(in.pair.positive.vss, in.pair.positive.secret_share,
                         params.self_node_index + 1)
       /\ ~validate_share(in.pair.negative.vss, in.pair.negative.secret_share,
                          params.self_node_index + 1)
       /\ ProcessOn(state, params, in).ret = "InvalidSS"

\* C8: redelivery is idempotent: for every state S and every Blockvss m,
\* process_blockvss(process_blockvss(S, m), m) = process_blockvss(S, m).
C8_RedeliveryIdempotent ==
  \A in \in BlockvssInputs(state, params) :
    ProcessOn(ProcessOn(state, params, in).state, params, in).state
      = ProcessOn(state, params, in).state

\* C8 witness: a Blockvss changes the state of a running round and its
\* redelivery changes nothing more
C8_Witness ==
  /\ last.op = "process_blockvss"
  /\ last.ret \in {"stored", "derived"}
  /\ \E in \in BlockvssInputs(state, params) :
       LET once == ProcessOn(state, params, in).state
       IN  /\ once # state
           /\ once.block_shared_keys.some
           /\ ProcessOn(once, params, in).state = once

\* C9: a Blockvss from a sender that already has an entry in
\* shared_block_secrets overwrites the pair of that sender with the pair
\* received: the number of entries does not grow and the entry of every other
\* sender is unchanged.
C9_DuplicateOverwrites ==
  \A in \in BlockvssInputs(state, params) :
    ( /\ TakesBlockvss(state)
      /\ in.sender_id \in DOMAIN state.shared_block_secrets )
    => LET stored == store_received_vss(in.sender_id, state, in.pair)
           out    == ProcessOn(state, params, in)
           others == DOMAIN state.shared_block_secrets \ {in.sender_id}
       IN  /\ stored.ok
           /\ DOMAIN stored.val = DOMAIN state.shared_block_secrets
           /\ stored.val[in.sender_id] = in.pair
           /\ \A k \in others : stored.val[k] = state.shared_block_secrets[k]
           /\ DOMAIN out.state.shared_block_secrets
                = DOMAIN state.shared_block_secrets
           /\ \A k \in others :
                out.state.shared_block_secrets[k]
                  = state.shared_block_secrets[k]
           /\ out.ret \in {"stored", "derived"}
              => out.state.shared_block_secrets[in.sender_id] = in.pair

\* C9 witness: the node holds the pairs of two senders and one of them sends
\* another pair, which replaces the one stored
C9_Witness ==
  /\ TakesBlockvss(state)
  /\ last.op = "process_blockvss"
  /\ Cardinality(DOMAIN state.shared_block_secrets) >= 2
  /\ \E in \in BlockvssInputs(state, params) :
       /\ in.sender_id \in DOMAIN state.shared_block_secrets
       /\ state.shared_block_secrets[in.sender_id] # in.pair
       /\ ProcessOn(state, params, in).state
            .shared_block_secrets[in.sender_id] = in.pair

\* the keys of one collection of the pairs held once the pair of in is stored
KeysAfter(s, in, branch) ==
  LET senders == DOMAIN s.shared_block_secrets \cup {in.sender_id}
  IN  [ x_i |-> fe_sum([k \in senders |->
                          PairAfter(s, in, k)[branch].secret_share], senders),
        y   |-> fe_sum([k \in senders |->
                          PairAfter(s, in, k)[branch].vss.commitments[1]],
                       senders) ]

RECURSIVE fe_pow_mod(_, _, _)
\* base^exp modulo n
fe_pow_mod(base, exp, n) ==
  IF exp = 0 THEN 1 ELSE (base * fe_pow_mod(base, exp - 1, n)) % n

\* the Jacobi symbol of a modulo the odd prime n by Euler's criterion
EulerSymbol(a, n) ==
  LET r == fe_pow_mod(a, (n - 1) \div 2, n)
  IN  IF r = n - 1 THEN -1 ELSE r

\* C10: when process_blockvss derives the keys, is_positive is true and
\* (x_i, Y) are the positive keys exactly when the Jacobi symbol of the
\* y-coordinate of the positive aggregate modulo the field prime is +1;
\* otherwise is_positive is false and (x_i, Y) are the negative keys; the
\* Blocksig broadcast is the local signature of the selected branch.
C10_BranchFollowsJacobi ==
  \A in \in BlockvssInputs(state, params) :
    LET out == ProcessOn(state, params, in)
    IN  out.ret = "derived"
        => LET pos    == KeysAfter(state, in, "positive")
               neg    == KeysAfter(state, in, "negative")
               symbol == EulerSymbol(y_coor(pos.y), FieldPrime)
               chosen == IF symbol = 1 THEN pos ELSE neg
               e      == fe_add(fe_add(chosen.y, priv_shared_keys.y),
                                state.candidate_block.val.sighash)
               gamma  == fe_add(chosen.x_i, fe_mul(e, priv_shared_keys.x_i))
           IN  /\ out.state.block_shared_keys
                    = Some(<<symbol = 1, chosen.x_i, chosen.y>>)
               /\ in.sign_ok => Len(out.sent) = 1
               /\ \A i \in 1 .. Len(out.sent) :
                    /\ IsBlocksig(out.sent[i])
                    /\ out.sent[i].message_type.gamma_i = gamma
                    /\ out.sent[i].message_type.e = e

\* C10 witness: the keys were derived on the negative branch
C10_Witness ==
  /\ last.op = "process_blockvss"
  /\ last.ret = "derived"
  /\ state.block_shared_keys.some
  /\ state.block_shared_keys.val[1] = FALSE
  /\ state.block_shared_keys.val[2] = SumShares(state, "negative")
  /\ state.block_shared_keys.val[3] = SumCommitments(state, "negative")

\* C10 witness companion: the keys were derived on the positive branch
C10_PositiveReached ==
  /\ last.op = "process_blockvss"
  /\ last.ret = "derived"
  /\ state.block_shared_keys.some
  /\ state.block_shared_keys.val[1] = TRUE

\* the map the node holds once the pair of in is stored
SecretsAfter(s, in) ==
  [k \in DOMAIN s.shared_block_secrets \cup {in.sender_id} |->
     PairAfter(s, in, k)]

\* the pairs the dealers of shared_block_secrets hand to the node at index:
\* the same commitments, the shares of that index
DealtTo(shared_block_secrets, index) ==
  [k \in DOMAIN shared_block_secrets |->
     [br \in {"positive", "negative"} |->
        [ vss          |-> shared_block_secrets[k][br].vss,
          secret_share |-> poly_eval(
                             shared_block_secrets[k][br].vss.commitments,
                             index, 1) ]]]

\* private shared keys of two nodes
PrivSharedKeys == {priv_shared_keys, [x_i |-> 7, y |-> 11]}

\* C11: is_positive and the group element Y are a function of the stored
\* shared_block_secrets only: a node with another index, another private key
\* and another outcome of Sign::sign that holds equal shared_block_secrets,
\* or the shares the same dealers handed to its index, computes the same
\* is_positive and the same Y.
C11_BranchDependsOnSecretsOnly ==
  \A in \in BlockvssInputs(state, params) :
    TakesBlockvss(state) =>
      LET secrets == SecretsAfter(state, in)
          mine    == broadcast_local_sig(in.blockhash, secrets,
                       priv_shared_keys, state, params, in.sign_ok).result
      IN  mine.ok =>
            \A idx \in 0 .. (NumSigners - 1), priv \in PrivSharedKeys,
               so \in SignOutcomes :
              LET same  == broadcast_local_sig(in.blockhash, secrets, priv,
                             state, NodeParameters(idx), so).result
                  other == broadcast_local_sig(in.blockhash,
                             DealtTo(secrets, idx + 1), priv, state,
                             NodeParameters(idx), so).result
              IN  /\ same.ok => /\ same.val[1] = mine.val[1]
                                /\ same.val[2].y = mine.val[2].y
                  /\ other.ok
                  /\ other.val[1] = mine.val[1]
                  /\ other.val[2].y = mine.val[2].y

\* C11 witness: the node derived its keys, and a node at another index with
\* another private key derives, from its own shares of the same dealers,
\* another x_i, the same is_positive and the same Y
C11_Witness ==
  /\ last.op = "process_blockvss"
  /\ last.ret = "derived"
  /\ state.block_shared_keys.some
  /\ \E idx \in 0 .. (NumSigners - 1) :
       LET other == broadcast_local_sig(
                      state.candidate_block.val.sighash,
                      DealtTo(state.shared_block_secrets, idx + 1),
                      [x_i |-> 7, y |-> 11], state, NodeParameters(idx),
                      TRUE).result
       IN  /\ idx # params.self_node_index
           /\ other.ok
           /\ other.val[2].x_i # state.block_shared_keys.val[2]
           /\ other.val[1] = state.block_shared_keys.val[1]
           /\ other.val[2].y = state.block_shared_keys.val[3]

\* C12 (as claimed): block_height never decreases: for a Master or Member
\* state with block_height h, the state process_blockvss returns has
\* block_height >= h.
C12_HeightNeverDecreases ==
  \A in \in BlockvssInputs(state, params) :
    state.tag \in {"Master", "Member"}
    => ProcessOn(state, params, in).state.block_height >= state.block_height

\* the Blocksig in meets the preconditions of process_blocksig in state s
TakesBlocksig(s, in) ==
  /\ s.tag = "Master"
  /\ s.round_is_done = FALSE
  /\ s.candidate_block.some
  /\ s.candidate_block.val.sighash = in.blockhash
  /\ s.block_shared_keys.some
  /\ in.sender_id \in s.participants

BlocksigOn(prev_state, p, in) ==
  process_blocksig(in.sender_id, in.blockhash, in.gamma_i, in.e, prev_state, p)

IsCompletedblock(m) == m.message_type.type = "Completedblock"

\* C13: a Master that holds the Blocksig of fewer than T distinct
\* participants (in particular of exactly T-1) has not completed the round
\* (round_is_done = false, no Completedblock emitted by the call that left
\* it so); when the Blocksig of the T-th distinct participant is processed,
\* round_is_done becomes true and one Completedblock is broadcast.
C13_CompletesAtThreshold ==
  /\ ( state.tag = "Master"
       /\ Cardinality(DOMAIN state.signatures) < params.threshold )
     => state.round_is_done = FALSE
  /\ \A in \in BlocksigInputs :
       TakesBlocksig(state, in) =>
         LET out   == BlocksigOn(state, params, in)
             count == Cardinality(DOMAIN state.signatures \cup {in.sender_id})
         IN  /\ count < params.threshold
                => /\ out.state.round_is_done = FALSE
                   /\ \A i \in 1 .. Len(out.sent) :
                        ~IsCompletedblock(out.sent[i])
             /\ count = params.threshold
                => /\ out.state.tag = "Master"
                   /\ out.state.round_is_done = TRUE
                   /\ Len(out.sent) = 1
                   /\ IsCompletedblock(out.sent[1])
                   /\ out.sent[1].message_type.block
                        = state.candidate_block.val
                   /\ out.sent[1].receiver_id = None

\* C13 witness: the T-th Blocksig was processed and the round is done with
\* exactly T signatures
C13_Witness ==
  /\ state.tag = "Master"
  /\ last.op = "process_blocksig"
  /\ last.ret = "completed"
  /\ state.round_is_done = TRUE
  /\ Cardinality(DOMAIN state.signatures) = params.threshold

\* C13 witness companion: T-1 signatures are in and the round still runs
C13_OneShortReached ==
  /\ state.tag = "Master"
  /\ last.op = "process_blocksig"
  /\ last.ret = "inserted"
  /\ Cardinality(DOMAIN state.signatures) = params.threshold - 1
  /\ state.round_is_done = FALSE

\* C14: the signatures map of a Master holds one entry per sender and its
\* keys are participants: a Blocksig that is taken leaves an entry for its
\* sender, and a Blocksig from a signer that already has an entry replaces
\* that entry, so the number of entries stays the number of distinct senders
\* and a duplicate does not count toward the threshold T.
C14_OneSignaturePerSender ==
  /\ state.tag = "Master" => DOMAIN state.signatures \subseteq state.participants
  /\ \A in \in BlocksigInputs :
       state.tag = "Master" =>
         LET out == BlocksigOn(state, params, in)
         IN  /\ DOMAIN out.state.signatures \subseteq state.participants
             /\ TakesBlocksig(state, in)
                => /\ DOMAIN out.state.signatures
                        = DOMAIN state.signatures \cup {in.sender_id}
                   /\ out.state.signatures[in.sender_id]
                        = <<in.gamma_i, in.e>>
             /\ in.sender_id \in DOMAIN state.signatures
                => /\ DOMAIN out.state.signatures = DOMAIN state.signatures
                   /\ out.state.round_is_done = state.round_is_done
                   /\ out.sent = <<>>

\* C14 witness: the Master holds the signature of one signer, with fewer
\* than T signers in, and that signer sends another signature, which is
\* taken in place of the first
C14_Witness ==
  /\ state.tag = "Master"
  /\ last.op = "process_blocksig"
  /\ last.ret = "inserted"
  /\ \E in \in BlocksigInputs :
       /\ TakesBlocksig(state, in)
       /\ in.sender_id \in DOMAIN state.signatures
       /\ state.signatures[in.sender_id] # <<in.gamma_i, in.e>>
       /\ BlocksigOn(state, params, in).state.signatures[in.sender_id]
            = <<in.gamma_i, in.e>>
       /\ Cardinality(DOMAIN BlocksigOn(state, params, in).state.signatures)
            = Cardinality(DOMAIN state.signatures)

\* the senders whose Blockvss / Blocksig is in flight
VssInFlight == {m.sender_id : m \in {x \in inflight : x.message_type.type = "Blockvss"}}

SigInFlight == {m.sender_id : m \in {x \in inflight : x.message_type.type = "Blocksig"}}

\* the Blocksig of at least T distinct participants are in or still to come
ThresholdSigsArrive ==
  Cardinality((SigInFlight \cup DOMAIN state.signatures)
                \cap state.participants) >= params.threshold

\* the Blockvss of every signer in senders is stored or still to come
VssArriveFrom(senders) ==
  senders \subseteq (VssInFlight \cup DOMAIN state.shared_block_secrets)

\* every Blockvss in flight verifies at the node
VssInFlightVerify ==
  \A m \in inflight :
    m.message_type.type = "Blockvss" =>
      /\ validate_share(m.message_type.pair.positive.vss,
                        m.message_type.pair.positive.secret_share,
                        params.self_node_index + 1)
      /\ validate_share(m.message_type.pair.negative.vss,
                        m.message_type.pair.negative.secret_share,
                        params.self_node_index + 1)

\* the Master has just completed the round
RoundCompleted ==
  /\ state.tag = "Master"
  /\ state.round_is_done = TRUE
  /\ last.op = "process_blocksig"
  /\ last.ret = "completed"

InRound == state.tag \in {"Master", "Member"}

\* C16: from any state, a round timeout or a received Roundfailure moves the
\* node to RoundComplete with next_master_index = (current master index + 1)
\* mod N, and a round the node is in, stalled or not, always ends this way.
C16_RoundfailureEndsRound ==
  /\ [][last'.op = "process_roundfailure" =>
          /\ state'.tag = "RoundComplete"
          /\ state'.master_index \in RoundMasterIndexes(state, params)
          /\ state'.next_master_index =
               (state'.master_index + 1) % NumSigners]_vars
  /\ [][(InRound /\ state'.tag # state.tag) =>
          /\ last'.op = "process_roundfailure"
          /\ state'.tag = "RoundComplete"]_vars
  /\ InRound ~> (state.tag = "RoundComplete")

\* C16 witness: the round of the last signer of the federation was given up
\* and the master index wrapped around to the first
C16_Witness ==
  /\ state.tag = "RoundComplete"
  /\ last.op = "process_roundfailure"
  /\ state.master_index = NumSigners - 1
  /\ state.next_master_index = 0

\* the Candidateblock messages in flight
CandidateblocksInFlight ==
  {m \in inflight : m.message_type.type = "Candidateblock"}

\* the Blockvss messages in flight for the block of the Candidateblock c
BlockvssInFlightFor(c) ==
  {m \in inflight : /\ m.message_type.type = "Blockvss"
                    /\ m.message_type.blockhash = c.message_type.block.sighash}

\* the state after the Candidateblock c is delivered to the node in st
AfterCandidateblock(st, c) ==
  process_candidateblock(c.sender_id, c.message_type.block, RoundBlockKey,
                         st, params).state

\* the state after the Blockvss m is delivered to the node in st
AfterBlockvss(st, m, so) ==
  process_blockvss(m.sender_id, m.message_type.blockhash, m.message_type.pair,
                   priv_shared_keys, st, params, so).state

C17_DerivedReached ==
  /\ state.tag = "Member"
  /\ state.block_shared_keys.some
  /\ inflight = {}

\* the entry the broker keeps of a message published on a channel
Published(channel, message) ==
  [channel |-> channel, payload |-> to_string(message)]

\* the channel is "tapyrus-signer-" followed by the hexadecimal notation of
\* the key
IsPrivateChannelOf(channel, key) ==
  /\ Len(channel) = 3
  /\ channel[1] = "tapyrus-signer-"
  /\ from_hex(SubSeq(channel, 2, 3)) = key

\* the call failed its assertion: the caller panicked, no publisher thread
\* runs, nothing is published and nothing reaches the subscriber
FailsAssertion(out) ==
  /\ out.ret = "assertion failed"
  /\ out.self.caller = "panicked"
  /\ ~out.self.publisher.some
  /\ out.self.published = redis.published
  /\ out.self.queue = redis.queue

\* the outcome of a call once its publisher thread, if one was spawned, has
\* ended
Returned(out, broker_up) ==
  IF out.ret = "joining" THEN publisher_thread(out.self, broker_up) ELSE out

\* C18: broadcast_message publishes a message only on "tapyrus-signer" and
\* only when its receiver_id is None; send_message publishes only on
\* "tapyrus-signer-{hex of the receiver's public key}" and only when
\* receiver_id is Some; a call that violates the requirement fails its
\* assertion and publishes nothing.
C18_PublishesOnItsChannel ==
  \A message \in NetMessages, broker_up \in BOOLEAN :
    redis.caller = "running" =>
    LET b    == Returned(broadcast_message(redis, message), broker_up)
        sd   == Returned(send_message(redis, message), broker_up)
        newb == b.self.published \ redis.published
        news == sd.self.published \ redis.published
    IN  /\ \A x \in newb : /\ x.channel = <<"tapyrus-signer">>
                           /\ x = Published(x.channel, message)
                           /\ ~message.receiver_id.some
        /\ \A x \in news : /\ message.receiver_id.some
                           /\ IsPrivateChannelOf(x.channel,
                                                 message.receiver_id.val)
                           /\ x = Published(x.channel, message)
        /\ b.ret = "published" =>
             /\ ~message.receiver_id.some
             /\ Published(<<"tapyrus-signer">>, message) \in b.self.published
        /\ sd.ret = "published" =>
             /\ message.receiver_id.some
             /\ \E x \in sd.self.published :
                  /\ x = Published(x.channel, message)
                  /\ IsPrivateChannelOf(x.channel, message.receiver_id.val)
        /\ message.receiver_id.some => FailsAssertion(b)
        /\ ~message.receiver_id.some => FailsAssertion(sd)

\* C18 witness: send_message published a message on the private channel of
\* the node, which its subscriber received
C18_Witness ==
  /\ last.op = "send_message"
  /\ last.ret = "published"
  /\ redis.queue # <<>>
  /\ redis.queue[Len(redis.queue)].channel = channel_name(params.signer_id)

\* a call of broadcast_message failed its assertion
C18_AssertionReached ==
  /\ last.op = "broadcast_message"
  /\ last.ret = "assertion failed"
  /\ redis.caller = "panicked"

\* the subscriber thread has ended
ThreadEnded == redis.thread \in {"returning", "terminated", "panicked"}

\* C19: start subscribes to the broadcast channel and to the node's private
\* channel and passes each decoded message to the handler; a Continue keeps
\* the subscription active, a Break ends it: the subscriber thread
\* terminates and the handler is never invoked again.
C19_BreakEndsSubscription ==
  /\ [][(last'.op = "inner_subscribe" /\ last'.ret = "subscribed") =>
          /\ redis.thread = "spawned"
          /\ redis'.thread = "subscribed"
          /\ Cardinality(redis'.subscribed) = 2
          /\ <<"tapyrus-signer">> \in redis'.subscribed
          /\ \E c \in redis'.subscribed :
               IsPrivateChannelOf(c, params.signer_id)]_vars
  /\ [][last'.op = "message_processor" =>
          /\ redis.thread = "subscribed"
          /\ from_str(Head(redis.queue).payload).ok]_vars
  /\ [][(last'.op = "message_processor" /\ last'.ret = "Continue") =>
          /\ redis'.thread = "subscribed"
          /\ redis'.subscribed = redis.subscribed
          /\ redis'.queue = Tail(redis.queue)]_vars
  /\ [][(last'.op = "message_processor" /\ last'.ret = "Break") =>
          /\ redis'.thread = "returning"
          /\ redis'.subscribed = {}]_vars
  /\ [][ThreadEnded =>
          /\ ThreadEnded'
          /\ redis'.subscribed = {}
          /\ redis'.queue = <<>>
          /\ last'.op # "message_processor"]_vars
  /\ (redis.thread = "returning") ~> (redis.thread = "terminated")

\* C19 witness: the subscriber thread terminated after the handler returned
\* Break
C19_Witness ==
  /\ last.op = "thread_exit"
  /\ redis.thread = "terminated"
  /\ redis.error_sent = 0

\* the handler returned Continue and the subscription goes on
C19_ContinueReached ==
  /\ last.op = "message_processor"
  /\ last.ret = "Continue"
  /\ redis.thread = "subscribed"

\* C20: the error receiver is handed out at most once: the first call of
\* error_handler returns the receiver and every later call returns None,
\* whatever was subscribed and published in between.
C20_ReceiverHandedOutOnce ==
  /\ redis.handed_out <= 1
  /\ redis.calls = 0 => redis.error_receiver.some
  /\ redis.calls >= 1 =>
       /\ redis.handed_out = 1
       /\ ~redis.error_receiver.some
  /\ last.op = "error_handler" =>
       (last.ret = "Some" <=> redis.calls = 1)
  /\ ~error_handler(error_handler(redis).self).ret.some

\* C20 witness: a later call of error_handler, made while the node is
\* subscribed and after a publish, returned None
C20_Witness ==
  /\ last.op = "error_handler"
  /\ last.ret = "None"
  /\ redis.calls >= 2
  /\ redis.thread = "subscribed"
  /\ redis.published # {}

\* C21 (as claimed): every broker failure, hit by the subscriber thread
\* when it connects or while it is subscribed, or hit by the publisher thread
\* of an outbound message, surfaces as exactly one error on the error
\* channel and in no other way.
C21_BrokerFailureOnErrorChannel ==
  /\ redis.thread = "spawned" =>
       LET out == inner_subscribe(redis, params.signer_id, FALSE)
       IN  /\ out.error_sent = redis.error_sent + 1
           /\ out.caller = redis.caller
  /\ redis.thread = "subscribed" =>
       LET out == connection_lost(redis)
       IN  /\ out.error_sent = redis.error_sent + 1
           /\ out.caller = redis.caller
  /\ redis.publisher.some =>
       LET out == publisher_thread(redis, FALSE).self
       IN  /\ out.error_sent = redis.error_sent + 1
           /\ out.caller # "panicked"

\* a publish failed on the broker: the caller panicked and the error channel
\* is empty
C21_PublishFailureReached ==
  /\ last.op = "broadcast_message"
  /\ last.ret = "connection failed"
  /\ redis.caller = "panicked"
  /\ redis.error_sent = 0

\* C22 (as claimed): publishing never blocks the caller: while the
\* publisher thread of a broadcast_message or send_message call does its
\* broker I/O, the call has returned and the calling thread can take its next
\* step.
C22_PublishDoesNotBlock ==
  redis.publisher.some =>
    /\ redis.caller = "running"
    /\ ENABLED (BroadcastMessage \/ SendMessage \/ ErrorHandler)

\* a publisher thread is at its broker I/O and the caller waits in join
C22_CallerWaitsReached ==
  /\ redis.publisher.some
  /\ redis.caller = "joining"
  /\ redis.calls < MaxCalls
  /\ ~ENABLED (BroadcastMessage \/ SendMessage \/ ErrorHandler)

\* the channels the node's subscriber listens on
OwnChannels == {BroadcastChannel, channel_name(params.signer_id)}

\* the i-th publish on the broker is a Message published on one of the
\* node's channels after the node's start() had returned
PublishedAfterStart(i) ==
  /\ i <= Len(redis.log)
  /\ redis.log[i].started
  /\ redis.log[i].channel \in OwnChannels
  /\ from_str(redis.log[i].payload).ok

\* the message of the i-th publish was passed to the handler
PassedToHandler(i) ==
  /\ i <= Len(redis.log)
  /\ \E j \in 1 .. Len(redis.handled) :
       /\ redis.handled[j].channel = redis.log[i].channel
       /\ redis.handled[j].payload = redis.log[i].payload

\* the handler has returned Break, or a broker error has ended the
\* subscription
BreakOrBrokerError == redis.thread \in {"returning", "terminated"}

\* C23 (as claimed): at-least-once delivery: every message published on the
\* broadcast channel or on the node's private channel after the node's
\* start() has returned is eventually passed to the node's handler, unless
\* the handler has returned Break or a broker error occurred.
C23_PublishedIsDelivered ==
  \A i \in 1 .. MaxPublish :
    PublishedAfterStart(i) ~> (PassedToHandler(i) \/ BreakOrBrokerError)

\* a message published after start() had returned, before the subscriber
\* thread subscribed, is gone: the node is subscribed, nothing is queued,
\* nothing was handled, no payload was malformed and no error occurred
C23_LostReached ==
  /\ PublishedAfterStart(1)
  /\ \A i \in 1 .. Len(redis.log) : from_str(redis.log[i].payload).ok
  /\ redis.thread = "subscribed"
  /\ redis.queue = <<>>
  /\ redis.handled = <<>>
  /\ redis.error_sent = 0
  /\ redis.caller = "running"

\* the messages of a sequence of broker messages that are on a channel
OnChannel(messages, channel) ==
  LET pick(m) == m.channel = channel
      on == SelectSeq(messages, pick)
  IN  [i \in 1 .. Len(on) |-> on[i].payload]

RECURSIVE IsSubsequence(_, _)
\* a is b with some elements left out, the order kept
IsSubsequence(a, b) ==
  IF a = <<>> THEN TRUE
  ELSE IF b = <<>> THEN FALSE
  ELSE IF Head(a) = Head(b) THEN IsSubsequence(Tail(a), Tail(b))
  ELSE IsSubsequence(a, Tail(b))

\* C24: per-channel order is preserved: on every channel, the messages the
\* handler was invoked with, followed by the messages waiting for it, are in
\* the order of their publishes: when m1 was published before m2 on a
\* channel, the handler is invoked with m1 before m2.
C24_ChannelOrderPreserved ==
  \A channel \in OwnChannels :
    IsSubsequence(OnChannel(redis.handled \o redis.queue, channel),
                  OnChannel(redis.log, channel))

\* the node has published two different messages on one channel and the
\* handler was invoked with both
C24_Witness ==
  /\ Len(redis.handled) = 2
  /\ redis.handled[1].channel = redis.handled[2].channel
  /\ redis.handled[1].payload # redis.handled[2].payload
  /\ redis.handled[1].payload = redis.log[1].payload
  /\ redis.handled[2].payload = redis.log[2].payload

\* C25: SignerID serialization round-trips: of every valid public key, and
\* so of every compressed one, the serialized SignerID (the bytes of the
\* key) deserializes to a SignerID equal to the original.
C25_SignerIDRoundTrips ==
  /\ \A pubkey \in PublicKeys :
       /\ SignerID_deserialize(SignerID_serialize(SignerID(pubkey)))
            = Ok(SignerID(pubkey))
       /\ deserialize_byte_buf(SignerID_serialize(SignerID(pubkey)))
            = Ok(serialize_key(pubkey))
  /\ (last.op = "deserialize" /\ last.of.some) => last.ret = Ok(last.of.val)

\* the serialization of a compressed key with an odd y was deserialized
C25_Witness ==
  /\ last.op = "deserialize"
  /\ last.of.some
  /\ last.of.val.pubkey.compressed
  /\ y_coor(last.of.val.pubkey.key) % 2 = 1
  /\ last.ret.ok

\* the recipient of a line of the output: the key written before the colon
RecipientOf(line) ==
  LET colon == CHOOSE i \in 1 .. Len(line) : line[i] = ":"
  IN  PublicKey_from_str(SubSeq(line, 1, colon - 1)).val

\* the recipients of the lines of a response, in the order of the lines
Recipients(response) ==
  [i \in 1 .. Len(lines_of(response)) |-> RecipientOf(lines_of(response)[i])]

\* the public keys supplied on a command line whose keys are all valid
Supplied(matches) ==
  {PublicKey_from_str(matches.public_key[i]).val : i \in 1 .. Len(matches.public_key)}

\* the command lines with the --public_key values of matches in another order
Permuted(matches) ==
  LET n == Len(matches.public_key)
      orders == {f \in [1 .. n -> 1 .. n] : \A i, j \in 1 .. n : f[i] = f[j] => i = j}
  IN  { [matches EXCEPT !.public_key = [i \in 1 .. n |-> matches.public_key[f[i]]]] :
          f \in orders }

\* C26: the output of createnodevss has one PUBKEY:VSSBLOB line for each
\* supplied public key, the lines ascending by recipient public key; the set
\* and the order of the recipients are the same for every permutation of the
\* --public_key arguments.
C26_LinesSortedByRecipient ==
  (last.op = "createnodevss" /\ last.ret.ok) =>
    LET response == last.ret.val
        recipients == Recipients(response)
    IN  /\ {recipients[i] : i \in 1 .. Len(recipients)} = Supplied(last.arg)
        /\ \A i, j \in 1 .. Len(recipients) :
             i < j => PublicKey_lt(recipients[i], recipients[j])
        /\ \A i \in 1 .. Len(recipients) :
             /\ lines_of(response)[i] =
                  PublicKey_fmt(recipients[i]) \o <<":">>
                    \o Vss_fmt(response.vss[recipients[i]])
             /\ response.vss[recipients[i]].receiver_public_key = recipients[i]
        /\ \A permuted \in Permuted(last.arg), coefficient \in Coefficients :
             /\ execute(permuted, coefficient).ok
             /\ Recipients(execute(permuted, coefficient).val) = recipients

\* the command has answered three keys that were supplied in an order that is
\* not the ascending one
C26_Witness ==
  /\ last.op = "createnodevss"
  /\ last.ret.ok
  /\ Len(lines_of(last.ret.val)) = 3
  /\ \E i \in 1 .. 3 :
       PublicKey_from_str(last.arg.public_key[i]).val # Recipients(last.ret.val)[i]

\* the command has answered a command line that names a key twice
C26_RepeatedKeyReached ==
  /\ last.op = "createnodevss"
  /\ last.ret.ok
  /\ Len(lines_of(last.ret.val)) < Len(last.arg.public_key)

\* some --public_key value of a command line is not a valid public key
SomeKeyInvalid(matches) ==
  \E i \in 1 .. Len(matches.public_key) : ~PublicKey_from_str(matches.public_key[i]).ok

\* the --private_key value of a command line is not a valid WIF
PrivateKeyInvalid(matches) ==
  matches.private_key.some /\ ~from_wif(matches.private_key.val).ok

\* C27 (as claimed): createnodevss fails with InvalidKey when any
\* --public_key value is not a valid public key, and with
\* InvalidArgs("private_key") when the private key is not a valid WIF; in
\* both cases no response is produced.
C27_ErrorTagByInvalidArgument ==
  last.op = "createnodevss" =>
    /\ SomeKeyInvalid(last.arg) => last.ret = Err(InvalidKey)
    /\ PrivateKeyInvalid(last.arg) => last.ret = Err(InvalidArgs("private_key"))

\* C27 (amended): the private key is read first: createnodevss fails with
\* InvalidArgs("private_key") when the private key is not a valid WIF,
\* whatever the --public_key values are, and with InvalidKey when the private
\* key is a valid WIF and some --public_key value is not a valid public key;
\* in both cases no response is produced.
C27_PrivateKeyIsReadFirst ==
  last.op = "createnodevss" =>
    /\ PrivateKeyInvalid(last.arg) => last.ret = Err(InvalidArgs("private_key"))
    /\ (/\ last.arg.private_key.some
        /\ from_wif(last.arg.private_key.val).ok
        /\ SomeKeyInvalid(last.arg)) => last.ret = Err(InvalidKey)

\* the command was given a valid private key, a valid public key and after it
\* a public key that is not valid
C27_Witness ==
  /\ last.op = "createnodevss"
  /\ last.arg.private_key.some
  /\ from_wif(last.arg.private_key.val).ok
  /\ Len(last.arg.public_key) = 2
  /\ PublicKey_from_str(last.arg.public_key[1]).ok
  /\ ~PublicKey_from_str(last.arg.public_key[2]).ok
  /\ ~last.ret.ok

\* the command was given a private key that is no WIF and a public key that
\* is not valid
C27_BothInvalidReached ==
  /\ last.op = "createnodevss"
  /\ PrivateKeyInvalid(last.arg)
  /\ SomeKeyInvalid(last.arg)
  /\ last.ret = Err(InvalidArgs("private_key"))

\* C28 (as claimed): process_blockvss returns the prior state on any error:
\* if producing the local signature fails when the last Blockvss arrives, the
\* returned state equals the previous state (block_shared_keys is not set to
\* Some) and no Blocksig is emitted.
C28_SignFailureReturnsPrev ==
  \A in \in BlockvssInputs(state, params) :
    ( /\ TakesBlockvss(state)
      /\ CountAfter(state, in.sender_id) = Len(params.pubkey_list)
      /\ state.candidate_block.some
      /\ state.candidate_block.val.sighash = in.blockhash
      /\ AllVerifyAfter(state, params, in)
      /\ ~in.sign_ok )
    => LET out == ProcessOn(state, params, in)
       IN  /\ out.state = state
           /\ ~out.state.block_shared_keys.some
           /\ out.sent = <<>>

\* what the code does when Sign::sign fails on the last Blockvss: no Blocksig
\* is emitted, and the returned state holds the new pair and
\* block_shared_keys = Some
C28_KeysSetWithoutSignature ==
  \A in \in BlockvssInputs(state, params) :
    ( /\ TakesBlockvss(state)
      /\ CountAfter(state, in.sender_id) = Len(params.pubkey_list)
      /\ state.candidate_block.some
      /\ state.candidate_block.val.sighash = in.blockhash
      /\ AllVerifyAfter(state, params, in)
      /\ ~in.sign_ok )
    => LET out == ProcessOn(state, params, in)
       IN  /\ out.sent = <<>>
           /\ out.ret = "derived"
           /\ out.state.block_shared_keys.some

\* the fields of a state that process_blockvss has no setter call for
FrameFields(s) == (DOMAIN s) \ {"shared_block_secrets", "block_shared_keys"}

\* C29 (as claimed): process_blockvss never changes the variant of the state
\* and changes no field other than shared_block_secrets and
\* block_shared_keys: block_key, candidate_block, signatures, participants,
\* round_is_done, master_index and block_height are equal before and after.
C29_OtherFieldsUnchanged ==
  \A in \in BlockvssInputs(state, params) :
    LET out == ProcessOn(state, params, in)
    IN  /\ out.state.tag = state.tag
        /\ DOMAIN out.state = DOMAIN state
        /\ \A field \in FrameFields(state) : out.state[field] = state[field]

\* what the code keeps: the variant and every field but shared_block_secrets,
\* block_shared_keys and the block_height of a Master
C29_FrameButMasterHeight ==
  \A in \in BlockvssInputs(state, params) :
    LET out == ProcessOn(state, params, in)
    IN  /\ out.state.tag = state.tag
        /\ DOMAIN out.state = DOMAIN state
        /\ \A field \in FrameFields(state) :
             (state.tag = "Master" /\ field = "block_height")
             \/ out.state[field] = state[field]

\* the subscriber thread is about to take a payload that does not decode
MalformedAtHead ==
  /\ redis.thread = "subscribed"
  /\ redis.queue # <<>>
  /\ ~from_str(Head(redis.queue).payload).ok

\* C30 (as claimed): a payload that cannot be decoded as a Message is dropped
\* without harming the subscription: the handler is not invoked for it and
\* the subscriber keeps delivering the well-formed messages that follow.
C30_MalformedIsDropped ==
  [][ (MalformedAtHead /\ OnMessage)
        => /\ redis'.handled = redis.handled
           /\ redis'.thread = "subscribed"
           /\ redis'.subscribed = redis.subscribed
           /\ redis'.queue = Tail(redis.queue) ]_vars

\* what the code does with such a payload: the handler is not invoked, the
\* thread panics, the subscription is gone and no error is sent
C30_MalformedEndsSubscription ==
  [][ (MalformedAtHead /\ OnMessage)
        => /\ redis'.handled = redis.handled
           /\ redis'.thread = "panicked"
           /\ redis'.subscribed = {}
           /\ redis'.error_sent = redis.error_sent ]_vars

\* a well-formed message published after the panic is never delivered: the
\* thread has panicked on the first publish and the second publish decodes
C30_LaterMessageLostReached ==
  /\ redis.thread = "panicked"
  /\ Len(redis.log) = 2
  /\ ~from_str(redis.log[1].payload).ok
  /\ from_str(redis.log[2].payload).ok
  /\ redis.log[2].channel \in OwnChannels
  /\ redis.handled = <<>>
  /\ redis.queue = <<>>

\* C33 (as claimed): in every state reachable by process_blockvss calls,
\* every key of shared_block_secrets is the SignerID of a member of the
\* federation: a Blockvss whose sender is outside the federation is not
\* stored and never counts toward the number of pairs that triggers key
\* derivation.
C33_SecretsOfFederationOnly ==
  state.tag \in {"Master", "Member"}
    => DOMAIN state.shared_block_secrets \subseteq Federation

\* the keys were derived from a collection that holds a pair of a signer
\* outside the federation: that pair counted toward pubkey_list.len()
C33_OutsiderCountedReached ==
  /\ state.tag \in {"Master", "Member"}
  /\ last.op = "process_blockvss"
  /\ last.ret = "derived"
  /\ state.block_shared_keys.some
  /\ Outsider \in DOMAIN state.shared_block_secrets
  /\ Cardinality(DOMAIN state.shared_block_secrets) = Len(params.pubkey_list)

\* C34 (as claimed): within a round, block_shared_keys is latched: once a
\* Master or Member state has block_shared_keys = Some, no later
\* process_blockvss call returns a state with block_shared_keys = None.
C34_KeysLatched ==
  \A in \in BlockvssInputs(state, params) :
    (state.tag \in {"Master", "Member"} /\ state.block_shared_keys.some)
      => ProcessOn(state, params, in).state.block_shared_keys.some

\* what the code keeps: a Blockvss of a sender whose pair is already stored
\* leaves block_shared_keys = Some; only a sender that makes the count differ
\* from pubkey_list.len() resets the keys
C34_LatchedForStoredSenders ==
  \A in \in BlockvssInputs(state, params) :
    ( /\ state.tag \in {"Master", "Member"}
      /\ state.block_shared_keys.some
      /\ in.sender_id \in DOMAIN state.shared_block_secrets )
      => ProcessOn(state, params, in).state.block_shared_keys.some

\* the keys were reset: the node held block_shared_keys and the pairs of the
\* whole federation, and the Blockvss of a sender outside the federation made
\* the count pubkey_list.len() + 1
C34_KeysResetReached ==
  /\ state.tag \in {"Master", "Member"}
  /\ last.op = "process_blockvss"
  /\ last.ret = "stored"
  /\ ~state.block_shared_keys.some
  /\ Federation \subseteq DOMAIN state.shared_block_secrets
  /\ Outsider \in DOMAIN state.shared_block_secrets

\* the number of Blocksig messages for sighash among the messages sent
BlocksigCount(sent, sighash) ==
  Cardinality({i \in 1 .. Len(sent) :
                 IsBlocksig(sent[i]) /\ sent[i].message_type.blockhash = sighash})

\* C35 (as claimed): a node broadcasts at most one Blocksig per candidate
\* block: over any sequence of Blockvss deliveries in one round, duplicates
\* and re-deliveries included, the number of Blocksig messages the node emits
\* for the sighash of that block is 0 or 1.  Checked on every two
\* deliveries in a row from every state of a round.
C35_AtMostOneBlocksig ==
  \A first \in BlockvssInputs(state, params) :
    LET out == ProcessOn(state, params, first)
    IN  out.sent # <<>> =>
          \A second \in BlockvssInputs(out.state, params) :
            BlocksigCount(out.sent, first.blockhash)
              + BlocksigCount(ProcessOn(out.state, params, second).sent,
                              first.blockhash) <= 1

\* a single call never emits more than one Blocksig
C35_OneBlocksigPerCall ==
  \A in \in BlockvssInputs(state, params) :
    Len(ProcessOn(state, params, in).sent) <= 1

\* the node has derived its keys before, and the redelivery of a stored pair
\* derives them again and emits a Blocksig for the same block again
C35_SecondBlocksigReached ==
  /\ state.tag \in {"Master", "Member"}
  /\ last.op = "process_blockvss"
  /\ last.ret = "derived"
  /\ \E in \in BlockvssInputs(state, params) :
       /\ in.sender_id \in DOMAIN state.shared_block_secrets
       /\ in.pair = state.shared_block_secrets[in.sender_id]
       /\ BlocksigCount(ProcessOn(state, params, in).sent,
                        state.candidate_block.val.sighash) = 1

\* the public keys of the --public_key values of a command line whose keys
\* are all valid, in the order of the arguments
SuppliedList(matches) ==
  [i \in 1 .. Len(matches.public_key) |-> PublicKey_from_str(matches.public_key[i]).val]

\* the number of arguments whose key is not greater than key: the 1-based
\* position of the last occurrence of key in the sorted list, which is the
\* rank of key when no key is supplied twice
LastSortedPosition(matches, key) ==
  Cardinality({i \in 1 .. Len(matches.public_key) :
                 ~PublicKey_lt(key, SuppliedList(matches)[i])})

\* C32 (as claimed): createnodevss gives the recipient at 0-based position j
\* of the sorted public-key list the share secret_shares[j] (the polynomial
\* evaluated at 1-based index j+1) together with the sender's commitment
\* list, so each recipient's share matches its federation index whatever the
\* order of the arguments.
C32_ShareAtSortedPosition ==
  (last.op = "createnodevss" /\ last.ret.ok) =>
    LET response == last.ret.val
        sorted == sort(SuppliedList(last.arg))
    IN  \A j \in 1 .. Len(sorted) :
          LET vss == response.vss[sorted[j]]
          IN  /\ vss.positive_commitments[1] = from_wif(last.arg.private_key.val).val.key
              /\ vss.positive_secret = poly_eval(vss.positive_commitments, j, 1)

\* what the code gives each recipient: the sender's commitment list and the
\* share of the last position its key has in the sorted list of the supplied
\* keys; when the supplied keys are pairwise distinct that is secret_shares[j]
\* for the recipient at 0-based position j (the polynomial at j+1), its
\* federation index; the response is the same for every order of the
\* arguments
C32_ShareAtLastSortedPosition ==
  (last.op = "createnodevss" /\ last.ret.ok) =>
    LET response == last.ret.val
        private_key == from_wif(last.arg.private_key.val).val
    IN  /\ \A key \in DOMAIN response.vss :
             LET vss == response.vss[key]
                 index == LastSortedPosition(last.arg, key)
             IN  /\ vss.sender_public_key = from_private_key(private_key)
                 /\ vss.receiver_public_key = key
                 /\ vss.positive_commitments[1] = private_key.key
                 /\ vss.negative_commitments = vss.positive_commitments
                 /\ vss.positive_secret = poly_eval(vss.positive_commitments, index, 1)
                 /\ vss.negative_secret = vss.positive_secret
                 /\ Cardinality(Supplied(last.arg)) = Len(last.arg.public_key)
                      => index = Cardinality({o \in Supplied(last.arg) : PublicKey_lt(o, key)}) + 1
        /\ \A permuted \in Permuted(last.arg), coefficient \in Coefficients :
             (\E key \in DOMAIN response.vss :
                response.vss[key].positive_commitments[2] = coefficient)
               => execute(permuted, coefficient) = last.ret

\* the command has answered three different keys supplied in descending
\* order: the first argument has the share of index 3
C32_Witness ==
  /\ last.op = "createnodevss"
  /\ last.ret.ok
  /\ Len(last.arg.public_key) = 3
  /\ Cardinality(Supplied(last.arg)) = 3
  /\ PublicKey_lt(SuppliedList(last.arg)[3], SuppliedList(last.arg)[2])
  /\ PublicKey_lt(SuppliedList(last.arg)[2], SuppliedList(last.arg)[1])
  /\ LET vss == last.ret.val.vss[SuppliedList(last.arg)[1]]
     IN  vss.positive_secret = poly_eval(vss.positive_commitments, 3, 1)

\* the command has answered a command line that names its least key twice:
\* that key has the share of index 2 and no recipient has the share of
\* index 1
C32_RepeatedKeyShareReached ==
  /\ last.op = "createnodevss"
  /\ last.ret.ok
  /\ Len(last.arg.public_key) = 3
  /\ Cardinality(Supplied(last.arg)) = 2
  /\ \A key \in DOMAIN last.ret.val.vss :
       last.ret.val.vss[key].positive_secret
         # poly_eval(last.ret.val.vss[key].positive_commitments, 1, 1)

\* the channel a message is published on: the private channel of its
\* receiver, the broadcast channel when it has none
ChannelOf(message) ==
  IF message.receiver_id.some THEN channel_name(message.receiver_id.val)
  ELSE BroadcastChannel

\* every message the handler of the node was invoked with is a broadcast or
\* is addressed to the id the node called start with, and came on the
\* channel of its receiver
OnlyOwnMessagesHandled ==
  \A j \in 1 .. Len(redis.handled) :
    LET message == from_str(redis.handled[j].payload).val
    IN  /\ message.receiver_id \in {None, Some(params.signer_id)}
        /\ redis.handled[j].channel = ChannelOf(message)

\* C31 (as claimed): a message sent with send_message to receiver R is passed
\* to the handler of the node that called start with id R and to the handler
\* of no other node; a broadcast is passed to the handler of every started
\* node, the sender's own included.
C31_PassedToReceiverOnly ==
  /\ []OnlyOwnMessagesHandled
  /\ \A i \in 1 .. MaxPublish :
       PublishedAfterStart(i) ~> (PassedToHandler(i) \/ BreakOrBrokerError)

\* what the code keeps: the handler of a node is invoked with no message
\* addressed to another node
C31_NoMessageOfAnotherNode == OnlyOwnMessagesHandled

\* the node has sent a message to another signer and a broadcast, and its
\* handler was invoked with the broadcast only
C31_IsolationReached ==
  /\ Len(redis.log) = 2
  /\ from_str(redis.log[1].payload).ok
  /\ from_str(redis.log[1].payload).val.receiver_id.some
  /\ from_str(redis.log[1].payload).val.receiver_id.val # params.signer_id
  /\ Len(redis.handled) = 1
  /\ redis.handled[1].channel = BroadcastChannel
  /\ redis.queue = <<>>

\* the node has started, has then sent a message to its own id before its
\* subscriber thread subscribed, and the message is gone
C31_OwnMessageLostReached ==
  /\ Len(redis.log) = 1
  /\ redis.log[1].started
  /\ redis.log[1].channel = channel_name(params.signer_id)
  /\ from_str(redis.log[1].payload).ok
  /\ redis.thread = "subscribed"
  /\ redis.queue = <<>>
  /\ redis.handled = <<>>
  /\ redis.error_sent = 0
  /\ redis.caller = "running"

\* C36: for one start() call, handler invocations never overlap: the
\* messages of the broadcast channel and of the private channel are handed
\* to the handler one at a time by the one subscriber thread, so at most one
\* invocation is running at any time.
C36_InvocationsNeverOverlap == Cardinality(redis.invoking) <= 1

\* the handler runs on a message of one channel while a message of the other
\* channel waits for it
C36_Witness ==
  /\ redis.thread = "subscribed"
  /\ Cardinality(redis.invoking) = 1
  /\ redis.queue # <<>>
  /\ from_str(Head(redis.queue).payload).ok
  /\ \A m \in redis.invoking : m.channel # Head(redis.queue).channel

====
